---- MODULE Spec2Model ----
(***************************************************************************)
(* Model of divination/calendar.py: the Julian Day converter, the lunar    *)
(* date reconstructor (gregorian_to_lunar / lunar_to_gregorian), the leap  *)
(* month resolver and the sexagenary pillar calculator; of the star        *)
(* arrangement of divination/qi_men_dunjia.py and of the chart cache of    *)
(* divination/interactive_chart.py.                                        *)
(*                                                                         *)
(* Representation of floats.  Every Julian Day the program handles for     *)
(* the years modelled lies in [2^21, 2^22), where an IEEE binary64 value   *)
(* is an integer multiple of 2^-31.  A Julian Day jd is therefore kept     *)
(* exactly, as the record [day |-> D, frac |-> N] with                     *)
(*        jd + 0.5 = D + N / 2^31,   0 <= N < 2^31,                        *)
(* so that D is the civil day number and N / 2^31 the fraction of the      *)
(* civil day elapsed since midnight.  Additions of whole days, the         *)
(* comparisons and the truncations of the program are exact on this        *)
(* representation.  TLC integers are 32 bit wide, so products with N are   *)
(* computed on the two 16 bit halves of N.                                 *)
(***************************************************************************)
EXTENDS Integers, Sequences, FiniteSets, TLC

(***************************************************************************)
(* The instance.  Every function of the program is a method and reads the  *)
(* attributes of the instance it receives as self.                         *)
(***************************************************************************)
VARIABLES
    self,           \* the ChineseLunarCalendar instance of the caller(s)
    threads,        \* the calls of concurrent threads on the one instance
    solar_term,     \* the locals of a call of find_solar_term in progress
    chart           \* the InteractiveQiMenChart instance

Two15 == 32768
Two16 == 65536
Two24 == 16777216

JD(D, N) == [day |-> D, frac |-> N]

DateTime(y, mo, d, h, mi, s) ==
    [year |-> y, month |-> mo, day |-> d, hour |-> h, minute |-> mi, second |-> s]

\* jd1 < jd2 and jd1 <= jd2 on floats
JDLess(a, b) == a.day < b.day \/ (a.day = b.day /\ a.frac < b.frac)
JDLeq(a, b) == a.day < b.day \/ (a.day = b.day /\ a.frac <= b.frac)

\* jd + n for a whole number of days n (exact in binary64)
JDPlusDays(a, n) == JD(a.day + n, a.frac)

(***************************************************************************)
(* gregorian_to_julian, calendar.py 280-290.                               *)
(***************************************************************************)
JulianDayNumber(date) ==
    LET a == (14 - date.month) \div 12
        y == date.year + 4800 - a
        m == date.month + 12 * a - 3
    IN  date.day + (153 * m + 2) \div 5 + 365 * y + y \div 4 - y \div 100
          + y \div 400 - 32045

\* faulty variant: date.second left out of the fraction
SecondsOfDayWithoutSecond(date) == date.hour * 3600 + date.minute * 60

\* seconds since midnight; fraction = SecondsOfDay / 86400 up to float error
SecondsOfDay(date) == date.hour * 3600 + date.minute * 60 + date.second

\* jdn + fraction is rounded by binary64 to the nearest multiple of 2^-31:
\* the numerator is the integer nearest to T * 2^31 / 86400 = T * 2^24 / 675
\* (the error of the float `fraction` is below 2^-52, the distance of
\* T * 2^24 / 675 from a rounding tie is at least 1/1350).
\* 2^24 = 675 * 24855 + 91.
RoundedFraction(T) ==
    LET q == T \div 675
        r == T % 675
    IN  q * Two24 + r * 24855 + (2 * r * 91 + 675) \div 1350

gregorian_to_julian(date) ==
    JD(JulianDayNumber(date), RoundedFraction(SecondsOfDay(date)))

(***************************************************************************)
(* julian_to_gregorian, calendar.py 292-320.                               *)
(***************************************************************************)
\* f * m for a float f = N / 2^31 in [0,1) and a small integer m: the
\* product has fewer than 53 significant bits, so it is exact.  Returns
\* int(f * m) and the numerator of f * m - int(f * m).
MulFrac(N, m) ==
    LET hi == N \div Two16
        lo == N % Two16
        t  == hi * m + (lo * m) \div Two16
    IN  [int |-> t \div Two15,
         frac |-> (t % Two15) * Two16 + ((lo * m) % Two16)]

julian_to_gregorian(jd) ==
    LET z == jd.day                       \* z = int(jd + 0.5)
        f == jd.frac                      \* f = jd + 0.5 - z
        \* int((z - 1867216.25) / 36524.25)
        alpha == (4 * z - 7468865) \div 146097
        a == IF z < 2299161 THEN z ELSE z + 1 + alpha - alpha \div 4
        b == a + 1524
        \* int((b - 122.1) / 365.25)
        c == (20 * b - 2442) \div 7305
        \* int(365.25 * c)
        d == (1461 * c) \div 4
        \* int((b - d) / 30.6001)
        e == ((b - d) * 10000) \div 306001
        day == b - d - (306001 * e) \div 10000
        month == IF e < 14 THEN e - 1 ELSE e - 13
        year == IF month > 2 THEN c - 4716 ELSE c - 4715
        hours == MulFrac(f, 24)
        minutes == MulFrac(hours.frac, 60)
        seconds == MulFrac(minutes.frac, 60)
    IN  DateTime(year, month, day, hours.int, minutes.int, seconds.int)

(***************************************************************************)
(* calculate_new_moon, calendar.py 322-377, and find_solar_term,           *)
(* calendar.py 401-417, are sums of sines evaluated in binary64.  They are  *)
(* modelled by their graphs: the exact binary64 value the code returns for  *)
(* every argument the conversions below pass to them.                       *)
(*   NewMoonTable:  <<k, D, N>>              calculate_new_moon(k) = JD(D,N)*)
(*   SolarTermTable: <<longitude, D0, N0, D, N>>                            *)
(*                  find_solar_term(longitude, JD(D0,N0)) = JD(D,N)         *)
(***************************************************************************)
NewMoonTable ==
    { <<-743, 2429608, 1949037058>>, <<-742, 2429638, 1243839741>>, <<-741, 2429668, 695051645>>,
      <<-740, 2429698, 213852684>>, <<-739, 2429727, 1817540592>>, <<-738, 2429757, 1083958247>>,
      <<-737, 2429787, 97122130>>, <<-736, 2429816, 1026231224>>, <<-735, 2429845, 1804368424>>,
      <<-734, 2429875, 382007359>>, <<-733, 2429904, 1136856483>>, <<-732, 2429933, 1974753954>>,
      <<-731, 2429963, 779722869>>, <<-730, 2429992, 1874145485>>, <<-729, 2430022, 989397475>>,
      <<284, 2459937, 923068555>>, <<285, 2459966, 1872421919>>, <<286, 2459996, 638468501>>,
      <<287, 2460025, 1558761018>>, <<288, 2460055, 379203986>>, <<289, 2460084, 1423684508>>,
      <<290, 2460114, 415060812>>, <<291, 2460143, 1659726174>>, <<292, 2460173, 863997425>>,
      <<293, 2460203, 150899563>>, <<294, 2460232, 1605615743>>, <<295, 2460262, 848406093>>,
      <<296, 2460291, 2108122006>>, <<297, 2460321, 1072391140>>, <<298, 2460350, 2059416712>>,
      <<299, 2460380, 808750535>>, <<300, 2460409, 1644608149>>, <<301, 2460439, 303869628>>,
      <<302, 2460468, 1132503169>>, <<303, 2460497, 2056523128>>, <<304, 2460527, 1006070375>>,
      <<305, 2460557, 174743049>>, <<306, 2460586, 1686676843>>, <<307, 2460616, 1146722271>>,
      <<308, 2460646, 571428855>>, <<309, 2460675, 2011109136>>, <<310, 2460705, 1130215559>>,
      <<7680, 2678345, 139831398>>, <<7681, 2678374, 1684681038>>, <<7682, 2678404, 1244824842>>,
      <<7683, 2678434, 822183755>>, <<7684, 2678464, 245982000>>, <<7685, 2678493, 1554459453>>,
      <<7686, 2678523, 445182189>>, <<7687, 2678552, 1279041346>>, <<7688, 2678581, 1998898175>>,
      <<7689, 2678611, 540915213>>, <<7690, 2678640, 1267653391>>, <<7691, 2678669, 2089567551>>,
      <<7692, 2678699, 917703357>>, <<7693, 2678728, 2100674139>>, <<22089, 3103852, 54147886>>,
      <<22090, 3103881, 1481412850>>, <<22091, 3103911, 626946050>>, <<22092, 3103940, 1739889220>>,
      <<22093, 3103970, 518080430>>, <<22094, 3103999, 1297482563>>, <<22095, 3104028, 2006908430>>,
      <<22096, 3104058, 586837911>>, <<22097, 3104087, 1412120662>>, <<22098, 3104117, 249440171>>,
      <<22099, 3104146, 1433870703>>, <<22100, 3104176, 685034943>>, <<22101, 3104206, 124046262>>,
      <<22102, 3104235, 1808802985>>, <<26257, 3226935, 716382688>>, <<26258, 3226965, 209369517>>,
      <<26259, 3226994, 1731352660>>, <<26260, 3227024, 889839879>>, <<26261, 3227053, 1963679926>>,
      <<26262, 3227083, 700658709>>, <<26263, 3227112, 1456827235>>, <<26264, 3227141, 2144735702>>,
      <<26265, 3227171, 680497450>>, <<26266, 3227200, 1436534967>>, <<26267, 3227230, 208798091>>,
      <<26268, 3227259, 1377084868>>, <<26269, 3227289, 682251865>>, <<26270, 3227319, 211861575>> }

SolarTermTable ==
    { <<0, 2429638, 1243839741, 2429709, 1635515759>>,
      <<0, 2429668, 695051645, 2429709, 1635514807>>,
      <<0, 2429698, 213852684, 2429709, 1635520638>>,
      <<0, 2429727, 1817540592, 2429709, 1635536926>>,
      <<0, 2429757, 1083958247, 2429709, 1635564797>>,
      <<0, 2429787, 97122130, 2429709, 1635602840>>,
      <<0, 2429816, 1026231224, 2429709, 1635647494>>,
      <<0, 2429845, 1804368424, 2429709, 1635693614>>,
      <<0, 2429875, 382007359, 2429709, 1635735327>>, <<0, 2429904, 1136856483, 2430075, 8495151>>,
      <<0, 2429933, 1974753954, 2430075, 8510046>>, <<0, 2429963, 779722869, 2430075, 8515275>>,
      <<0, 2460321, 1072391140, 2460390, 259543964>>,
      <<0, 2460350, 2059416712, 2460390, 259543278>>, <<0, 2460380, 808750535, 2460390, 259377575>>,
      <<0, 2460409, 1644608149, 2460390, 259563193>>, <<0, 2460439, 303869628, 2460390, 259587964>>,
      <<0, 2460468, 1132503169, 2460390, 259621891>>,
      <<0, 2460497, 2056523128, 2460390, 259661991>>,
      <<0, 2460527, 1006070375, 2460390, 259703719>>, <<0, 2460557, 174743049, 2460390, 259741663>>,
      <<0, 2460586, 1686676843, 2460755, 780027829>>,
      <<0, 2460616, 1146722271, 2460755, 780041156>>, <<0, 2460646, 571428855, 2460755, 780045677>>,
      <<0, 2678374, 1684681038, 2678439, 1797258178>>,
      <<0, 2678404, 1244824842, 2678439, 1797227974>>,
      <<0, 2678434, 822183755, 2678439, 1797334860>>,
      <<0, 2678464, 245982000, 2678439, 1797382492>>,
      <<0, 2678493, 1554459453, 2678439, 1797392252>>,
      <<0, 2678523, 445182189, 2678439, 1797406092>>,
      <<0, 2678552, 1279041346, 2678439, 1797422911>>,
      <<0, 2678581, 1998898175, 2678439, 1797440902>>,
      <<0, 2678611, 540915213, 2678439, 1797457805>>,
      <<0, 2678640, 1267653391, 2678805, 170504035>>,
      <<0, 2678669, 2089567551, 2678805, 170510402>>, <<0, 2678699, 917703357, 2678805, 170413446>>,
      <<0, 3103881, 1481412850, 3103947, 685477740>>, <<0, 3103911, 626946050, 3103947, 685564451>>,
      <<0, 3103940, 1739889220, 3103947, 685567076>>, <<0, 3103970, 518080430, 3103947, 685603553>>,
      <<0, 3103999, 1297482563, 3103947, 685690940>>,
      <<0, 3104028, 2006908430, 3103947, 685573412>>, <<0, 3104058, 586837911, 3103947, 685574883>>,
      <<0, 3104087, 1412120662, 3103947, 685576666>>, <<0, 3104117, 249440171, 3103947, 685578572>>,
      <<0, 3104146, 1433870703, 3104312, 1206137948>>,
      <<0, 3104176, 685034943, 3104312, 1206252101>>,
      <<0, 3104206, 124046262, 3104312, 1206322298>>, <<0, 3226965, 209369517, 3227034, 98247265>>,
      <<0, 3226994, 1731352660, 3227034, 97998069>>, <<0, 3227024, 889839879, 3227034, 98201703>>,
      <<0, 3227053, 1963679926, 3227034, 98215028>>, <<0, 3227083, 700658709, 3227034, 98253423>>,
      <<0, 3227112, 1456827235, 3227034, 98323164>>, <<0, 3227141, 2144735702, 3227034, 98205039>>,
      <<0, 3227171, 680497450, 3227034, 98205731>>, <<0, 3227200, 1436534967, 3227034, 98206510>>,
      <<0, 3227230, 208798091, 3227399, 618871158>>, <<0, 3227259, 1377084868, 3227399, 618936201>>,
      <<0, 3227289, 682251865, 3227399, 618981087>>,
      <<30, 2429638, 1243839741, 2429740, 516482178>>,
      <<30, 2429668, 695051645, 2429740, 516477006>>,
      <<30, 2429698, 213852684, 2429740, 516508645>>,
      <<30, 2429727, 1817540592, 2429740, 516596544>>,
      <<30, 2429757, 1083958247, 2429740, 516745350>>,
      <<30, 2429787, 97122130, 2429740, 516662918>>,
      <<30, 2429816, 1026231224, 2429740, 516671871>>,
      <<30, 2429845, 1804368424, 2429740, 516680955>>,
      <<30, 2429875, 382007359, 2429740, 516689040>>,
      <<30, 2429904, 1136856483, 2429740, 516695165>>,
      <<30, 2429933, 1974753954, 2430105, 1036295649>>,
      <<30, 2429963, 779722869, 2430105, 1036324078>>,
      <<30, 2460321, 1072391140, 2460420, 1233435201>>,
      <<30, 2460350, 2059416712, 2460420, 1233431296>>,
      <<30, 2460380, 808750535, 2460420, 1233461795>>,
      <<30, 2460409, 1644608149, 2460420, 1233544026>>,
      <<30, 2460439, 303869628, 2460420, 1233682513>>,
      <<30, 2460468, 1132503169, 2460420, 1233599273>>,
      <<30, 2460497, 2056523128, 2460420, 1233607512>>,
      <<30, 2460527, 1006070375, 2460420, 1233615931>>,
      <<30, 2460557, 174743049, 2460420, 1233623460>>,
      <<30, 2460586, 1686676843, 2460420, 1233629161>>,
      <<30, 2460616, 1146722271, 2460785, 1753272310>>,
      <<30, 2460646, 571428855, 2460785, 1753298056>>,
      <<30, 2678374, 1684681038, 2678470, 244815879>>,
      <<30, 2678404, 1244824842, 2678470, 244811895>>,
      <<30, 2678434, 822183755, 2678470, 244825980>>,
      <<30, 2678464, 245982000, 2678470, 244870547>>,
      <<30, 2678493, 1554459453, 2678470, 244949928>>,
      <<30, 2678523, 445182189, 2678470, 245060418>>,
      <<30, 2678552, 1279041346, 2678470, 244893745>>,
      <<30, 2678581, 1998898175, 2678470, 244898177>>,
      <<30, 2678611, 540915213, 2678470, 244902255>>,
      <<30, 2678640, 1267653391, 2678470, 244905479>>,
      <<30, 2678669, 2089567551, 2678835, 764798466>>,
      <<30, 2678699, 917703357, 2678835, 764820968>>,
      <<30, 3103881, 1481412850, 3103977, 620356092>>,
      <<30, 3103911, 626946050, 3103977, 620354922>>,
      <<30, 3103940, 1739889220, 3103977, 620355406>>,
      <<30, 3103970, 518080430, 3103977, 620229884>>,
      <<30, 3103999, 1297482563, 3103977, 620377862>>,
      <<30, 3104028, 2006908430, 3103977, 620403530>>,
      <<30, 3104058, 586837911, 3103977, 620437875>>,
      <<30, 3104087, 1412120662, 3103977, 620477842>>,
      <<30, 3104117, 249440171, 3103977, 620518922>>,
      <<30, 3104146, 1433870703, 3103977, 620555908>>,
      <<30, 3104176, 685034943, 3104342, 1140611904>>,
      <<30, 3104206, 124046262, 3104342, 1140625048>>,
      <<30, 3226965, 209369517, 3227063, 2017821212>>,
      <<30, 3226994, 1731352660, 3227063, 2017820920>>,
      <<30, 3227024, 889839879, 3227063, 2017820683>>,
      <<30, 3227053, 1963679926, 3227063, 2017708855>>,
      <<30, 3227083, 700658709, 3227063, 2017831961>>,
      <<30, 3227112, 1456827235, 3227063, 2017846644>>,
      <<30, 3227141, 2144735702, 3227063, 2017867304>>,
      <<30, 3227171, 680497450, 3227063, 2017892341>>,
      <<30, 3227200, 1436534967, 3227063, 2017919125>>,
      <<30, 3227230, 208798091, 3227063, 2017944386>>,
      <<30, 3227259, 1377084868, 3227429, 390662307>>,
      <<30, 3227289, 682251865, 3227429, 390672562>>,
      <<60, 2429638, 1243839741, 2429771, 476968817>>,
      <<60, 2429668, 695051645, 2429771, 476968132>>,
      <<60, 2429698, 213852684, 2429771, 476972324>>,
      <<60, 2429727, 1817540592, 2429771, 476983933>>,
      <<60, 2429757, 1083958247, 2429771, 476798614>>,
      <<60, 2429787, 97122130, 2429771, 477029493>>,
      <<60, 2429816, 1026231224, 2429771, 477059195>>,
      <<60, 2429845, 1804368424, 2429771, 477089001>>,
      <<60, 2429875, 382007359, 2429771, 477115265>>,
      <<60, 2429904, 1136856483, 2429771, 477135001>>,
      <<60, 2429933, 1974753954, 2429771, 477146653>>,
      <<60, 2429963, 779722869, 2430136, 996213375>>,
      <<60, 2460321, 1072391140, 2460451, 1144325562>>,
      <<60, 2460350, 2059416712, 2460451, 1144325036>>,
      <<60, 2460380, 808750535, 2460451, 1144329143>>,
      <<60, 2460409, 1644608149, 2460451, 1144340182>>,
      <<60, 2460439, 303869628, 2460451, 1144181000>>,
      <<60, 2460468, 1132503169, 2460451, 1144383347>>,
      <<60, 2460497, 2056523128, 2460451, 1144411706>>,
      <<60, 2460527, 1006070375, 2460451, 1144440356>>,
      <<60, 2460557, 174743049, 2460451, 1144465717>>,
      <<60, 2460586, 1686676843, 2460451, 1144484766>>,
      <<60, 2460616, 1146722271, 2460451, 1144495900>>,
      <<60, 2460646, 571428855, 2460816, 1663585036>>,
      <<60, 2678374, 1684681038, 2678500, 1938115186>>,
      <<60, 2678404, 1244824842, 2678500, 1938114581>>,
      <<60, 2678434, 822183755, 2678500, 1938116718>>,
      <<60, 2678464, 245982000, 2678500, 1938123457>>,
      <<60, 2678493, 1554459453, 2678500, 1938062727>>,
      <<60, 2678523, 445182189, 2678500, 1938151820>>,
      <<60, 2678552, 1279041346, 2678500, 1938171129>>,
      <<60, 2678581, 1998898175, 2678500, 1938191065>>,
      <<60, 2678611, 540915213, 2678500, 1938209197>>,
      <<60, 2678640, 1267653391, 2678500, 1938223394>>,
      <<60, 2678669, 2089567551, 2678500, 1938232367>>,
      <<60, 2678699, 917703357, 2678866, 310008926>>,
      <<60, 3103881, 1481412850, 3104007, 1577834297>>,
      <<60, 3103911, 626946050, 3104007, 1577828094>>,
      <<60, 3103940, 1739889220, 3104007, 1577830658>>,
      <<60, 3103970, 518080430, 3104007, 1577866034>>,
      <<60, 3103999, 1297482563, 3104007, 1577948987>>,
      <<60, 3104028, 2006908430, 3104007, 1578082633>>,
      <<60, 3104058, 586837911, 3104007, 1577991485>>,
      <<60, 3104087, 1412120662, 3104007, 1577999030>>,
      <<60, 3104117, 249440171, 3104007, 1578006660>>,
      <<60, 3104146, 1433870703, 3104007, 1578013427>>,
      <<60, 3104176, 685034943, 3104007, 1578018531>>,
      <<60, 3104206, 124046262, 3104372, 2097459015>>,
      <<60, 3226965, 209369517, 3227094, 620377886>>,
      <<60, 3226994, 1731352660, 3227094, 620376029>>,
      <<60, 3227024, 889839879, 3227094, 620374526>>,
      <<60, 3227053, 1963679926, 3227094, 620393173>>,
      <<60, 3227083, 700658709, 3227094, 620445780>>,
      <<60, 3227112, 1456827235, 3227094, 620537513>>,
      <<60, 3227141, 2144735702, 3227094, 620664723>>,
      <<60, 3227171, 680497450, 3227094, 620487136>>,
      <<60, 3227200, 1436534967, 3227094, 620492588>>,
      <<60, 3227230, 208798091, 3227094, 620497643>>,
      <<60, 3227259, 1377084868, 3227094, 620501690>>,
      <<60, 3227289, 682251865, 3227459, 1140077977>>,
      <<90, 2429638, 1243839741, 2429802, 1211332258>>,
      <<90, 2429668, 695051645, 2429802, 1211331078>>,
      <<90, 2429698, 213852684, 2429802, 1211338286>>,
      <<90, 2429727, 1817540592, 2429802, 1211358197>>,
      <<90, 2429757, 1083958247, 2429802, 1211391535>>,
      <<90, 2429787, 97122130, 2429802, 1211435658>>,
      <<90, 2429816, 1026231224, 2429802, 1211485596>>,
      <<90, 2429845, 1804368424, 2429802, 1211535275>>,
      <<90, 2429875, 382007359, 2429802, 1211578703>>,
      <<90, 2429904, 1136856483, 2429802, 1211611129>>,
      <<90, 2429933, 1974753954, 2429802, 1211630187>>,
      <<90, 2429963, 779722869, 2429802, 1211636804>>,
      <<90, 2460321, 1072391140, 2460482, 1848226165>>,
      <<90, 2460350, 2059416712, 2460482, 1848225233>>,
      <<90, 2460380, 808750535, 2460482, 1848232501>>,
      <<90, 2460409, 1644608149, 2460482, 1848251984>>,
      <<90, 2460439, 303869628, 2460482, 1848284434>>,
      <<90, 2460468, 1132503169, 2460482, 1848327513>>,
      <<90, 2460497, 2056523128, 2460482, 1848376579>>,
      <<90, 2460527, 1006070375, 2460482, 1848425720>>,
      <<90, 2460557, 174743049, 2460482, 1848468870>>,
      <<90, 2460586, 1686676843, 2460482, 1848501068>>,
      <<90, 2460616, 1146722271, 2460482, 1848519805>>,
      <<90, 2460646, 571428855, 2460482, 1848526089>>,
      <<90, 2678374, 1684681038, 2678532, 246341017>>,
      <<90, 2678404, 1244824842, 2678532, 246339696>>,
      <<90, 2678434, 822183755, 2678532, 246344364>>,
      <<90, 2678464, 245982000, 2678532, 246359055>>,
      <<90, 2678493, 1554459453, 2678532, 246384929>>,
      <<90, 2678523, 445182189, 2678532, 246223270>>,
      <<90, 2678552, 1279041346, 2678532, 246461602>>,
      <<90, 2678581, 1998898175, 2678532, 246503810>>,
      <<90, 2678611, 540915213, 2678532, 246541869>>,
      <<90, 2678640, 1267653391, 2678532, 246571457>>,
      <<90, 2678669, 2089567551, 2678532, 246590064>>,
      <<90, 2678699, 917703357, 2678532, 246597843>>,
      <<90, 3103881, 1481412850, 3104038, 1422912643>>,
      <<90, 3103911, 626946050, 3104038, 1422911844>>,
      <<90, 3103940, 1739889220, 3104038, 1422912174>>,
      <<90, 3103970, 518080430, 3104038, 1422916730>>,
      <<90, 3103999, 1297482563, 3104038, 1422927376>>,
      <<90, 3104028, 2006908430, 3104038, 1422815794>>,
      <<90, 3104058, 586837911, 3104038, 1422966718>>,
      <<90, 3104087, 1412120662, 3104038, 1422991987>>,
      <<90, 3104117, 249440171, 3104038, 1423017270>>,
      <<90, 3104146, 1433870703, 3104038, 1423039485>>,
      <<90, 3104176, 685034943, 3104038, 1423056110>>,
      <<90, 3104206, 124046262, 3104038, 1423065887>>,
      <<90, 3226965, 209369517, 3227125, 267931015>>,
      <<90, 3226994, 1731352660, 3227125, 267930760>>,
      <<90, 3227024, 889839879, 3227125, 267930554>>,
      <<90, 3227053, 1963679926, 3227125, 267933107>>,
      <<90, 3227083, 700658709, 3227125, 267940289>>,
      <<90, 3227112, 1456827235, 3227125, 267819892>>,
      <<90, 3227141, 2144735702, 3227125, 268172983>>,
      <<90, 3227171, 680497450, 3227125, 267990041>>,
      <<90, 3227200, 1436534967, 3227125, 268011001>>,
      <<90, 3227230, 208798091, 3227125, 268030234>>,
      <<90, 3227259, 1377084868, 3227125, 268045497>>,
      <<90, 3227289, 682251865, 3227125, 268055374>>,
      <<120, 2429638, 1243839741, 2429468, 1669059304>>,
      <<120, 2429668, 695051645, 2429834, 40158269>>,
      <<120, 2429698, 213852684, 2429834, 40165240>>,
      <<120, 2429727, 1817540592, 2429834, 40184453>>,
      <<120, 2429757, 1083958247, 2429834, 40216482>>,
      <<120, 2429787, 97122130, 2429834, 40258606>>,
      <<120, 2429816, 1026231224, 2429834, 40305917>>,
      <<120, 2429845, 1804368424, 2429834, 40352602>>,
      <<120, 2429875, 382007359, 2429834, 40393106>>,
      <<120, 2429904, 1136856483, 2429834, 40423161>>,
      <<120, 2429933, 1974753954, 2429834, 40440754>>,
      <<120, 2429963, 779722869, 2429834, 40446849>>,
      <<120, 2460321, 1072391140, 2460149, 156181585>>,
      <<120, 2460350, 2059416712, 2460514, 674744599>>,
      <<120, 2460380, 808750535, 2460514, 674751820>>,
      <<120, 2460409, 1644608149, 2460514, 674771135>>,
      <<120, 2460439, 303869628, 2460514, 674803166>>,
      <<120, 2460468, 1132503169, 2460514, 674845421>>,
      <<120, 2460497, 2056523128, 2460514, 674893184>>,
      <<120, 2460527, 1006070375, 2460514, 674940634>>,
      <<120, 2460557, 174743049, 2460514, 674981984>>,
      <<120, 2460586, 1686676843, 2460514, 675012647>>,
      <<120, 2460616, 1146722271, 2460514, 675030417>>,
      <<120, 2460646, 571428855, 2460514, 675036365>>,
      <<120, 2678374, 1684681038, 2678198, 643669068>>,
      <<120, 2678404, 1244824842, 2678563, 1162127172>>,
      <<120, 2678434, 822183755, 2678563, 1162132789>>,
      <<120, 2678464, 245982000, 2678563, 1162150434>>,
      <<120, 2678493, 1554459453, 2678563, 1162181388>>,
      <<120, 2678523, 445182189, 2678563, 1162223508>>,
      <<120, 2678552, 1279041346, 2678563, 1162272203>>,
      <<120, 2678581, 1998898175, 2678563, 1162321627>>,
      <<120, 2678611, 540915213, 2678563, 1162365854>>,
      <<120, 2678640, 1267653391, 2678563, 1162400019>>,
      <<120, 2678669, 2089567551, 2678563, 1162421407>>,
      <<120, 2678699, 917703357, 2678563, 1162430326>>,
      <<120, 3103881, 1481412850, 3103704, 1510375087>>,
      <<120, 3103911, 626946050, 3104069, 2028812833>>,
      <<120, 3103940, 1739889220, 3104069, 2028813416>>,
      <<120, 3103970, 518080430, 3104069, 2028821434>>,
      <<120, 3103999, 1297482563, 3104069, 2028840122>>,
      <<120, 3104028, 2006908430, 3104069, 2028869901>>,
      <<120, 3104058, 586837911, 3104069, 2028908595>>,
      <<120, 3104087, 1412120662, 3104069, 2028952102>>,
      <<120, 3104117, 249440171, 3104069, 2028995271>>,
      <<120, 3104146, 1433870703, 3104069, 2029032915>>,
      <<120, 3104176, 685034943, 3104069, 2029060913>>,
      <<120, 3104206, 124046262, 3104069, 2029077312>>,
      <<120, 3226965, 209369517, 3226791, 223472055>>,
      <<120, 3226994, 1731352660, 3227156, 741945453>>,
      <<120, 3227024, 889839879, 3227156, 741945046>>,
      <<120, 3227053, 1963679926, 3227156, 741950089>>,
      <<120, 3227083, 700658709, 3227156, 741964242>>,
      <<120, 3227112, 1456827235, 3227156, 741988677>>,
      <<120, 3227141, 2144735702, 3227156, 742022064>>,
      <<120, 3227171, 680497450, 3227156, 742061104>>,
      <<120, 3227200, 1436534967, 3227156, 742101317>>,
      <<120, 3227230, 208798091, 3227156, 742137918>>,
      <<120, 3227259, 1377084868, 3227156, 742166767>>,
      <<120, 3227289, 682251865, 3227156, 742185346>>,
      <<150, 2429638, 1243839741, 2429500, 134241440>>,
      <<150, 2429668, 695051645, 2429500, 134240873>>,
      <<150, 2429698, 213852684, 2429865, 653286268>>,
      <<150, 2429727, 1817540592, 2429865, 653296625>>,
      <<150, 2429757, 1083958247, 2429865, 653313809>>,
      <<150, 2429787, 97122130, 2429865, 653336254>>,
      <<150, 2429816, 1026231224, 2429865, 653361252>>,
      <<150, 2429845, 1804368424, 2429865, 653385699>>,
      <<150, 2429875, 382007359, 2429865, 653530259>>,
      <<150, 2429904, 1136856483, 2429865, 653422231>>,
      <<150, 2429933, 1974753954, 2429865, 653431260>>,
      <<150, 2429963, 779722869, 2429865, 653434381>>,
      <<150, 2460321, 1072391140, 2460180, 795322956>>,
      <<150, 2460350, 2059416712, 2460180, 795322480>>,
      <<150, 2460380, 808750535, 2460545, 1314329381>>,
      <<150, 2460409, 1644608149, 2460545, 1314340113>>,
      <<150, 2460439, 303869628, 2460545, 1314357830>>,
      <<150, 2460468, 1132503169, 2460545, 1314381044>>,
      <<150, 2460497, 2056523128, 2460545, 1314407068>>,
      <<150, 2460527, 1006070375, 2460545, 1314432693>>,
      <<150, 2460557, 174743049, 2460545, 1314603745>>,
      <<150, 2460586, 1686676843, 2460545, 1314471145>>,
      <<150, 2460616, 1146722271, 2460545, 1314480551>>,
      <<150, 2460646, 571428855, 2460545, 1314483692>>,
      <<150, 2678374, 1684681038, 2678229, 1431732891>>,
      <<150, 2678404, 1244824842, 2678229, 1431731865>>,
      <<150, 2678434, 822183755, 2678594, 1950485149>>,
      <<150, 2678464, 245982000, 2678594, 1950497227>>,
      <<150, 2678493, 1554459453, 2678594, 1950518330>>,
      <<150, 2678523, 445182189, 2678594, 1950546871>>,
      <<150, 2678552, 1279041346, 2678594, 1950579618>>,
      <<150, 2678581, 1998898175, 2678594, 1950612582>>,
      <<150, 2678611, 540915213, 2678594, 1950641846>>,
      <<150, 2678640, 1267653391, 2678594, 1950664301>>,
      <<150, 2678669, 2089567551, 2678594, 1950678291>>,
      <<150, 2678699, 917703357, 2678594, 1950684109>>,
      <<150, 3103881, 1481412850, 3103736, 234217976>>,
      <<150, 3103911, 626946050, 3103736, 234216601>>,
      <<150, 3103940, 1739889220, 3104101, 752614533>>,
      <<150, 3103970, 518080430, 3104101, 752622563>>,
      <<150, 3103999, 1297482563, 3104101, 752641232>>,
      <<150, 3104028, 2006908430, 3104101, 752670852>>,
      <<150, 3104058, 586837911, 3104101, 752709103>>,
      <<150, 3104087, 1412120662, 3104101, 752751798>>,
      <<150, 3104117, 249440171, 3104101, 752793834>>,
      <<150, 3104146, 1433870703, 3104101, 752830228>>,
      <<150, 3104176, 685034943, 3104101, 752857139>>,
      <<150, 3104206, 124046262, 3104101, 752872839>>,
      <<150, 3226965, 209369517, 3226822, 1067420897>>,
      <<150, 3226994, 1731352660, 3226822, 1067420346>>,
      <<150, 3227024, 889839879, 3227187, 1585757097>>,
      <<150, 3227053, 1963679926, 3227187, 1585762717>>,
      <<150, 3227083, 700658709, 3227187, 1585778461>>,
      <<150, 3227112, 1456827235, 3227187, 1585805538>>,
      <<150, 3227141, 2144735702, 3227187, 1585842327>>,
      <<150, 3227171, 680497450, 3227187, 1585885045>>,
      <<150, 3227200, 1436534967, 3227187, 1585928711>>,
      <<150, 3227230, 208798091, 3227187, 1585968164>>,
      <<150, 3227259, 1377084868, 3227187, 1585999067>>,
      <<150, 3227289, 682251865, 3227187, 1586018880>>,
      <<180, 2429638, 1243839741, 2429530, 2035098885>>,
      <<180, 2429668, 695051645, 2429530, 2035094938>>,
      <<180, 2429698, 213852684, 2429530, 2035119005>>,
      <<180, 2429727, 1817540592, 2429896, 407240894>>,
      <<180, 2429757, 1083958247, 2429896, 407245406>>,
      <<180, 2429787, 97122130, 2429896, 407251246>>,
      <<180, 2429816, 1026231224, 2429896, 407257679>>,
      <<180, 2429845, 1804368424, 2429896, 407263897>>,
      <<180, 2429875, 382007359, 2429896, 407189496>>,
      <<180, 2429904, 1136856483, 2429896, 407298458>>,
      <<180, 2429933, 1974753954, 2429896, 407361525>>,
      <<180, 2429963, 779722869, 2429896, 407383254>>,
      <<180, 2460321, 1072391140, 2460211, 595974961>>,
      <<180, 2460350, 2059416712, 2460211, 595971576>>,
      <<180, 2460380, 808750535, 2460211, 595997914>>,
      <<180, 2460409, 1644608149, 2460576, 1115544025>>,
      <<180, 2460439, 303869628, 2460576, 1115548876>>,
      <<180, 2460468, 1132503169, 2460576, 1115555178>>,
      <<180, 2460497, 2056523128, 2460576, 1115562166>>,
      <<180, 2460527, 1006070375, 2460576, 1115568968>>,
      <<180, 2460557, 174743049, 2460576, 1115495541>>,
      <<180, 2460586, 1686676843, 2460576, 1115612652>>,
      <<180, 2460616, 1146722271, 2460576, 1115679774>>,
      <<180, 2460646, 571428855, 2460576, 1115702117>>,
      <<180, 2678374, 1684681038, 2678260, 1542950363>>,
      <<180, 2678404, 1244824842, 2678260, 1542950012>>,
      <<180, 2678434, 822183755, 2678260, 1542951249>>,
      <<180, 2678464, 245982000, 2678625, 2062315244>>,
      <<180, 2678493, 1554459453, 2678625, 2062322857>>,
      <<180, 2678523, 445182189, 2678625, 2062333080>>,
      <<180, 2678552, 1279041346, 2678625, 2062344701>>,
      <<180, 2678581, 1998898175, 2678625, 2062356282>>,
      <<180, 2678611, 540915213, 2678625, 2062268667>>,
      <<180, 2678640, 1267653391, 2678625, 2062455291>>,
      <<180, 2678669, 2089567551, 2678625, 2062570868>>,
      <<180, 2678699, 917703357, 2678625, 2062380996>>,
      <<180, 3103881, 1481412850, 3103767, 795116291>>,
      <<180, 3103911, 626946050, 3103767, 795115547>>,
      <<180, 3103940, 1739889220, 3103767, 795115855>>,
      <<180, 3103970, 518080430, 3104132, 1313918703>>,
      <<180, 3103999, 1297482563, 3104132, 1313929312>>,
      <<180, 3104028, 2006908430, 3104132, 1313946065>>,
      <<180, 3104058, 586837911, 3104132, 1313967558>>,
      <<180, 3104087, 1412120662, 3104132, 1313991358>>,
      <<180, 3104117, 249440171, 3104132, 1313805180>>,
      <<180, 3104146, 1433870703, 3104132, 1314203983>>,
      <<180, 3104176, 685034943, 3104132, 1314049221>>,
      <<180, 3104206, 124046262, 3104132, 1314057739>>,
      <<180, 3226965, 209369517, 3226853, 1713284066>>,
      <<180, 3226994, 1731352660, 3226853, 1713283730>>,
      <<180, 3227024, 889839879, 3226853, 1713283458>>,
      <<180, 3227053, 1963679926, 3227219, 84461822>>,
      <<180, 3227083, 700658709, 3227219, 84471888>>,
      <<180, 3227112, 1456827235, 3227219, 84489131>>,
      <<180, 3227141, 2144735702, 3227219, 84512422>>,
      <<180, 3227171, 680497450, 3227219, 84539269>>,
      <<180, 3227200, 1436534967, 3227219, 84566493>>,
      <<180, 3227230, 208798091, 3227219, 84748634>>,
      <<180, 3227259, 1377084868, 3227219, 84609890>>,
      <<180, 3227289, 682251865, 3227219, 84622006>>,
      <<210, 2429638, 1243839741, 2429561, 682944635>>,
      <<210, 2429668, 695051645, 2429561, 682913582>>,
      <<210, 2429698, 213852684, 2429561, 682759199>>,
      <<210, 2429727, 1817540592, 2429561, 682768765>>,
      <<210, 2429757, 1083958247, 2429926, 1203032944>>,
      <<210, 2429787, 97122130, 2429926, 1203059487>>,
      <<210, 2429816, 1026231224, 2429926, 1203088180>>,
      <<210, 2429845, 1804368424, 2429926, 1203115342>>,
      <<210, 2429875, 382007359, 2429926, 1203137985>>,
      <<210, 2429904, 1136856483, 2429926, 1203154236>>,
      <<210, 2429933, 1974753954, 2429926, 1203252883>>,
      <<210, 2429963, 779722869, 2429926, 1203166713>>,
      <<210, 2460321, 1072391140, 2460241, 1445678627>>,
      <<210, 2460350, 2059416712, 2460241, 1445878265>>,
      <<210, 2460380, 808750535, 2460241, 1445682194>>,
      <<210, 2460409, 1644608149, 2460241, 1445693002>>,
      <<210, 2460439, 303869628, 2460606, 1965895243>>,
      <<210, 2460468, 1132503169, 2460606, 1965924932>>,
      <<210, 2460497, 2056523128, 2460606, 1965957271>>,
      <<210, 2460527, 1006070375, 2460606, 1965988125>>,
      <<210, 2460557, 174743049, 2460606, 1966013984>>,
      <<210, 2460586, 1686676843, 2460606, 1966032544>>,
      <<210, 2460616, 1146722271, 2460606, 1966171565>>,
      <<210, 2460646, 571428855, 2460606, 1966046541>>,
      <<210, 2678374, 1684681038, 2678291, 628130565>>,
      <<210, 2678404, 1244824842, 2678291, 628128661>>,
      <<210, 2678434, 822183755, 2678291, 628135373>>,
      <<210, 2678464, 245982000, 2678291, 628156265>>,
      <<210, 2678493, 1554459453, 2678656, 1148163285>>,
      <<210, 2678523, 445182189, 2678656, 1148164791>>,
      <<210, 2678552, 1279041346, 2678656, 1147989285>>,
      <<210, 2678581, 1998898175, 2678656, 1148055044>>,
      <<210, 2678611, 540915213, 2678656, 1148111986>>,
      <<210, 2678640, 1267653391, 2678656, 1148154754>>,
      <<210, 2678669, 2089567551, 2678656, 1148180990>>,
      <<210, 2678699, 917703357, 2678656, 1148191809>>,
      <<210, 3103881, 1481412850, 3103798, 563535605>>,
      <<210, 3103911, 626946050, 3103798, 563530003>>,
      <<210, 3103940, 1739889220, 3103798, 563532320>>,
      <<210, 3103970, 518080430, 3103798, 563564124>>,
      <<210, 3103999, 1297482563, 3104163, 1082847556>>,
      <<210, 3104028, 2006908430, 3104163, 1082852385>>,
      <<210, 3104058, 586837911, 3104163, 1082858529>>,
      <<210, 3104087, 1412120662, 3104163, 1082865264>>,
      <<210, 3104117, 249440171, 3104163, 1082871770>>,
      <<210, 3104146, 1433870703, 3104163, 1082810739>>,
      <<210, 3104176, 685034943, 3104163, 1082922253>>,
      <<210, 3104206, 124046262, 3104163, 1082986656>>,
      <<210, 3226965, 209369517, 3226884, 1653389331>>,
      <<210, 3226994, 1731352660, 3226884, 1653386590>>,
      <<210, 3227024, 889839879, 3226884, 1653384371>>,
      <<210, 3227053, 1963679926, 3226884, 1653411828>>,
      <<210, 3227083, 700658709, 3227250, 24983497>>,
      <<210, 3227112, 1456827235, 3227250, 24989306>>,
      <<210, 3227141, 2144735702, 3227250, 24997097>>,
      <<210, 3227171, 680497450, 3227250, 25005998>>,
      <<210, 3227200, 1436534967, 3227250, 25014934>>,
      <<210, 3227230, 208798091, 3227250, 24915473>>,
      <<210, 3227259, 1377084868, 3227250, 25072255>>,
      <<210, 3227289, 682251865, 3227250, 25171672>>,
      <<240, 2429638, 1243839741, 2429591, 429675331>>,
      <<240, 2429668, 695051645, 2429591, 429673579>>,
      <<240, 2429698, 213852684, 2429591, 429684182>>,
      <<240, 2429727, 1817540592, 2429591, 429712186>>,
      <<240, 2429757, 1083958247, 2429591, 429754939>>,
      <<240, 2429787, 97122130, 2429956, 950645154>>,
      <<240, 2429816, 1026231224, 2429956, 950645661>>,
      <<240, 2429845, 1804368424, 2429956, 950476778>>,
      <<240, 2429875, 382007359, 2429956, 950555910>>,
      <<240, 2429904, 1136856483, 2429956, 950609101>>,
      <<240, 2429933, 1974753954, 2429956, 950638077>>,
      <<240, 2429963, 779722869, 2429956, 950849878>>,
      <<240, 2460321, 1072391140, 2460271, 1239885898>>,
      <<240, 2460350, 2059416712, 2460271, 1239884072>>,
      <<240, 2460380, 808750535, 2460271, 1239898182>>,
      <<240, 2460409, 1644608149, 2460271, 1239934501>>,
      <<240, 2460439, 303869628, 2460271, 1239990218>>,
      <<240, 2460468, 1132503169, 2460636, 1760820052>>,
      <<240, 2460497, 2056523128, 2460636, 1760820773>>,
      <<240, 2460527, 1006070375, 2460636, 1760821420>>,
      <<240, 2460557, 174743049, 2460636, 1760706008>>,
      <<240, 2460586, 1686676843, 2460636, 1760774755>>,
      <<240, 2460616, 1146722271, 2460636, 1760812077>>,
      <<240, 2460646, 571428855, 2460636, 1760824159>>,
      <<240, 2678374, 1684681038, 2678321, 773633612>>,
      <<240, 2678404, 1244824842, 2678321, 773610634>>,
      <<240, 2678434, 822183755, 2678321, 773662204>>,
      <<240, 2678464, 245982000, 2678321, 773785249>>,
      <<240, 2678493, 1554459453, 2678321, 773625966>>,
      <<240, 2678523, 445182189, 2678686, 1294272599>>,
      <<240, 2678552, 1279041346, 2678686, 1294277062>>,
      <<240, 2678581, 1998898175, 2678686, 1294281296>>,
      <<240, 2678611, 540915213, 2678686, 1294284836>>,
      <<240, 2678640, 1267653391, 2678686, 1294083864>>,
      <<240, 2678669, 2089567551, 2678686, 1294242811>>,
      <<240, 2678699, 917703357, 2678686, 1294307496>>,
      <<240, 3103881, 1481412850, 3103828, 1434534471>>,
      <<240, 3103911, 626946050, 3103828, 1434533495>>,
      <<240, 3103940, 1739889220, 3103828, 1434533899>>,
      <<240, 3103970, 518080430, 3103828, 1434539428>>,
      <<240, 3103999, 1297482563, 3103828, 1434552112>>,
      <<240, 3104028, 2006908430, 3104193, 1954471758>>,
      <<240, 3104058, 586837911, 3104193, 1954503868>>,
      <<240, 3104087, 1412120662, 3104193, 1954538507>>,
      <<240, 3104117, 249440171, 3104193, 1954571385>>,
      <<240, 3104146, 1433870703, 3104193, 1954598871>>,
      <<240, 3104176, 685034943, 3104193, 1954618614>>,
      <<240, 3104206, 124046262, 3104193, 1954806037>>,
      <<240, 3226965, 209369517, 3226915, 585909391>>,
      <<240, 3226994, 1731352660, 3226915, 585908806>>,
      <<240, 3227024, 889839879, 3226915, 585908333>>,
      <<240, 3227053, 1963679926, 3226915, 585914183>>,
      <<240, 3227083, 700658709, 3226915, 585930418>>,
      <<240, 3227112, 1456827235, 3227280, 1105817869>>,
      <<240, 3227141, 2144735702, 3227280, 1105625734>>,
      <<240, 3227171, 680497450, 3227280, 1105677378>>,
      <<240, 3227200, 1436534967, 3227280, 1105728458>>,
      <<240, 3227230, 208798091, 3227280, 1105773137>>,
      <<240, 3227259, 1377084868, 3227280, 1105807165>>,
      <<240, 3227289, 682251865, 3227280, 1106038175>>,
      <<270, 2429295, 1610612736, 2429255, 1080951485>>, <<270, 2429450, 0, 2429620, 1602138094>>,
      <<270, 2429453, 1949015397, 2429620, 1602142470>>,
      <<270, 2429454, 1118481067, 2429620, 1602143162>>,
      <<270, 2429487, 1243825512, 2429620, 1602181363>>,
      <<270, 2429488, 536870912, 2429620, 1602182128>>,
      <<270, 2429615, 97109012, 2429620, 1602131840>>, <<270, 2429616, 0, 2429620, 1602149396>>,
      <<270, 2429620, 1080951485, 2429620, 1602246013>>,
      <<270, 2429638, 1243839741, 2429620, 1602250143>>, <<270, 2429661, 0, 2429620, 1602248926>>,
      <<270, 2429668, 695051645, 2429620, 1602249141>>,
      <<270, 2429694, 1804358512, 2429620, 1602254122>>,
      <<270, 2429694, 2147458793, 2429620, 1602254176>>,
      <<270, 2429698, 213852684, 2429620, 1602255285>>,
      <<270, 2429727, 1817540592, 2429620, 1602272527>>,
      <<270, 2429757, 1083958247, 2429620, 1602302214>>,
      <<270, 2429787, 97122130, 2429620, 1602342897>>,
      <<270, 2429804, 536870912, 2429985, 2123423607>>,
      <<270, 2429805, 536870912, 2429985, 2123424658>>,
      <<270, 2429806, 536870912, 2429985, 2123425715>>,
      <<270, 2429807, 536870912, 2429985, 2123426778>>,
      <<270, 2429808, 536870912, 2429985, 2123427847>>,
      <<270, 2429809, 536870912, 2429985, 2123428922>>,
      <<270, 2429810, 536870912, 2429985, 2123430002>>,
      <<270, 2429811, 536870912, 2429985, 2123431088>>,
      <<270, 2429812, 536870912, 2429985, 2123432180>>,
      <<270, 2429813, 536870912, 2429985, 2123433276>>,
      <<270, 2429814, 536870912, 2429985, 2123434377>>,
      <<270, 2429815, 536870912, 2429985, 2123435484>>,
      <<270, 2429816, 1026231224, 2429985, 2123436848>>,
      <<270, 2429845, 1804368424, 2429985, 2123470628>>,
      <<270, 2429875, 382007359, 2429985, 2123502891>>,
      <<270, 2429904, 1136856483, 2429985, 2123528479>>,
      <<270, 2429933, 1974753954, 2429985, 2123544068>>,
      <<270, 2429963, 779722869, 2429985, 2123367328>>,
      <<270, 2429985, 1602248926, 2429985, 2123543199>>,
      <<270, 2430026, 536870912, 2429985, 2123546105>>,
      <<270, 2430350, 2123546105, 2430351, 497356475>>,
      <<270, 2459611, 1073741824, 2459570, 1398069258>>,
      <<270, 2459763, 923045142, 2459935, 1919249253>>,
      <<270, 2459764, 923045142, 2459935, 1919250137>>,
      <<270, 2459765, 923045142, 2459935, 1919251027>>, <<270, 2459766, 0, 2459935, 1919251536>>,
      <<270, 2459766, 923045142, 2459935, 1919251921>>,
      <<270, 2459766, 1118481067, 2459935, 1919252003>>,
      <<270, 2459767, 923045142, 2459935, 1919252820>>,
      <<270, 2459768, 923045142, 2459935, 1919253724>>,
      <<270, 2459769, 923045142, 2459935, 1919254631>>,
      <<270, 2459770, 923045142, 2459935, 1919255543>>,
      <<270, 2459771, 923045142, 2459935, 1919256459>>,
      <<270, 2459772, 923045142, 2459935, 1919257379>>,
      <<270, 2459773, 923045142, 2459935, 1919258303>>,
      <<270, 2459774, 923045142, 2459935, 1919259230>>,
      <<270, 2459775, 923045142, 2459935, 1919260160>>, <<270, 2459776, 0, 2459935, 1919260692>>,
      <<270, 2459776, 923045142, 2459935, 1919261094>>,
      <<270, 2459776, 1118481067, 2459935, 1919261179>>,
      <<270, 2459785, 923045142, 2459935, 1919269613>>, <<270, 2459786, 0, 2459935, 1919270158>>,
      <<270, 2459786, 923045142, 2459935, 1919270569>>,
      <<270, 2459786, 1118481067, 2459935, 1919270656>>,
      <<270, 2459796, 1872411871, 2459935, 1919280594>>, <<270, 2459797, 0, 2459935, 1919280717>>,
      <<270, 2459797, 1118481067, 2459935, 1919281217>>,
      <<270, 2459806, 1872411871, 2459935, 1919290122>>, <<270, 2459807, 0, 2459935, 1919290243>>,
      <<270, 2459807, 1118481067, 2459935, 1919290733>>,
      <<270, 2459816, 638453848, 2459935, 1919298859>>, <<270, 2459817, 0, 2459935, 1919299496>>,
      <<270, 2459817, 638453848, 2459935, 1919299765>>,
      <<270, 2459817, 1118481067, 2459935, 1919299967>>,
      <<270, 2459824, 638453848, 2459935, 1919305967>>, <<270, 2459825, 0, 2459935, 1919306574>>,
      <<270, 2459825, 638453848, 2459935, 1919306830>>,
      <<270, 2459825, 1118481067, 2459935, 1919307022>>,
      <<270, 2459834, 638453848, 2459935, 1919314306>>, <<270, 2459835, 0, 2459935, 1919314865>>,
      <<270, 2459835, 638453848, 2459935, 1919315101>>,
      <<270, 2459835, 1118481067, 2459935, 1919315277>>,
      <<270, 2459844, 638453848, 2459935, 1919321890>>, <<270, 2459845, 0, 2459935, 1919322391>>,
      <<270, 2459845, 638453848, 2459935, 1919322601>>,
      <<270, 2459845, 1118481067, 2459935, 1919322759>>,
      <<270, 2459855, 1558740070, 2459935, 1919329463>>, <<270, 2459856, 0, 2459935, 1919329629>>,
      <<270, 2459856, 1118481067, 2459935, 1919329943>>,
      <<270, 2459865, 1558740070, 2459935, 1919335026>>, <<270, 2459866, 0, 2459935, 1919335163>>,
      <<270, 2459866, 1118481067, 2459935, 1919335423>>,
      <<270, 2459875, 379189937, 2459935, 1919339319>>, <<270, 2459876, 0, 2459935, 1919339649>>,
      <<270, 2459876, 379189937, 2459935, 1919339718>>,
      <<270, 2459876, 1118481067, 2459935, 1919339853>>,
      <<270, 2459885, 379189937, 2459935, 1919342835>>, <<270, 2459886, 0, 2459935, 1919343078>>,
      <<270, 2459886, 379189937, 2459935, 1919343130>>,
      <<270, 2459886, 1118481067, 2459935, 1919343229>>,
      <<270, 2459895, 379189937, 2459935, 1919345330>>, <<270, 2459896, 0, 2459935, 1919345492>>,
      <<270, 2459896, 379189937, 2459935, 1919345525>>,
      <<270, 2459896, 1118481067, 2459935, 1919345591>>,
      <<270, 2459905, 1423677267, 2459935, 1919429522>>, <<270, 2459906, 0, 2459935, 1919417921>>,
      <<270, 2459906, 1118481067, 2459935, 1919400582>>,
      <<270, 2459916, 1423677267, 2459935, 1919195993>>, <<270, 2459917, 0, 2459935, 1919193206>>,
      <<270, 2459917, 1118481067, 2459935, 1919189364>>,
      <<270, 2459918, 1423677267, 2459935, 1919182873>>,
      <<270, 2459926, 1423677267, 2459935, 1919204953>>, <<270, 2459927, 0, 2459935, 1919208210>>,
      <<270, 2459927, 1118481067, 2459935, 1919213572>>,
      <<270, 2459935, 1398069258, 2459935, 1919342245>>,
      <<270, 2459936, 415055896, 2459935, 1919353361>>, <<270, 2459937, 0, 2459935, 1919370370>>,
      <<270, 2459937, 415055896, 2459935, 1919374525>>,
      <<270, 2459937, 1118481067, 2459935, 1919381636>>,
      <<270, 2459946, 415055896, 2459935, 1919346430>>, <<270, 2459947, 0, 2459935, 1919346364>>,
      <<270, 2459947, 415055896, 2459935, 1919346349>>,
      <<270, 2459947, 1118481067, 2459935, 1919346322>>,
      <<270, 2459956, 415055896, 2459935, 1919345632>>, <<270, 2459957, 0, 2459935, 1919345571>>,
      <<270, 2459957, 415055896, 2459935, 1919345557>>,
      <<270, 2459957, 1118481067, 2459935, 1919345533>>,
      <<270, 2459966, 1659701627, 2459935, 1919344959>>, <<270, 2459967, 0, 2459935, 1919344948>>,
      <<270, 2459967, 1118481067, 2459935, 1919344924>>,
      <<270, 2459976, 1610612736, 2459935, 1919344700>>,
      <<270, 2459977, 1659701627, 2459935, 1919344702>>, <<270, 2459978, 0, 2459935, 1919344704>>,
      <<270, 2459978, 1118481067, 2459935, 1919344708>>,
      <<270, 2459987, 1659701627, 2459935, 1919345071>>, <<270, 2459988, 0, 2459935, 1919345088>>,
      <<270, 2459988, 1118481067, 2459935, 1919345127>>,
      <<270, 2459997, 863989341, 2459935, 1919346134>>, <<270, 2459998, 0, 2459935, 1919346226>>,
      <<270, 2459998, 863989341, 2459935, 1919346289>>,
      <<270, 2459998, 1118481067, 2459935, 1919346308>>,
      <<270, 2460008, 863989341, 2459935, 1919348369>>, <<270, 2460009, 0, 2459935, 1919348525>>,
      <<270, 2460009, 863989341, 2459935, 1919348632>>,
      <<270, 2460009, 1118481067, 2459935, 1919348664>>,
      <<270, 2460018, 863989341, 2459935, 1919351480>>, <<270, 2460019, 0, 2459935, 1919351700>>,
      <<270, 2460019, 863989341, 2459935, 1919351851>>,
      <<270, 2460019, 1118481067, 2459935, 1919351896>>,
      <<270, 2460028, 150895523, 2459935, 1919355560>>, <<270, 2460029, 0, 2459935, 1919356010>>,
      <<270, 2460029, 150895523, 2459935, 1919356045>>,
      <<270, 2460029, 1118481067, 2459935, 1919356267>>,
      <<270, 2460038, 150895523, 2459935, 1919360959>>, <<270, 2460039, 0, 2459935, 1919361524>>,
      <<270, 2460039, 150895523, 2459935, 1919361567>>,
      <<270, 2460039, 1118481067, 2459935, 1919361845>>,
      <<270, 2460048, 150895523, 2459935, 1919367601>>, <<270, 2460049, 0, 2459935, 1919368282>>,
      <<270, 2460049, 150895523, 2459935, 1919368334>>,
      <<270, 2460049, 1118481067, 2459935, 1919368668>>,
      <<270, 2460058, 1605591999, 2459935, 1919376080>>, <<270, 2460059, 0, 2459935, 1919376297>>,
      <<270, 2460059, 1118481067, 2459935, 1919376749>>,
      <<270, 2460069, 1605591999, 2459935, 1919386292>>, <<270, 2460070, 0, 2459935, 1919386543>>,
      <<270, 2460070, 1118481067, 2459935, 1919387065>>,
      <<270, 2460079, 1605591999, 2459935, 1919396821>>, <<270, 2460080, 0, 2459935, 1919397101>>,
      <<270, 2460080, 1118481067, 2459935, 1919397682>>,
      <<270, 2460089, 848405172, 2459935, 1919408021>>, <<270, 2460090, 0, 2459935, 1919408755>>,
      <<270, 2460090, 848405172, 2459935, 1919409237>>,
      <<270, 2460090, 1118481067, 2459935, 1919409390>>,
      <<270, 2460098, 848405172, 2459935, 1919419301>>,
      <<270, 2460099, 848405172, 2459935, 1919420599>>, <<270, 2460100, 0, 2459935, 1919421389>>,
      <<270, 2460100, 848405172, 2459935, 1919421906>>,
      <<270, 2460100, 1118481067, 2459935, 1919422071>>,
      <<270, 2460101, 848405172, 2459935, 1919423221>>,
      <<270, 2460102, 848405172, 2459935, 1919424544>>,
      <<270, 2460103, 848405172, 2459935, 1919425875>>,
      <<270, 2460104, 848405172, 2459935, 1919427214>>,
      <<270, 2460105, 848405172, 2459935, 1919428560>>,
      <<270, 2460106, 848405172, 2459935, 1919429914>>,
      <<270, 2460107, 848405172, 2459935, 1919431275>>,
      <<270, 2460108, 848405172, 2459935, 1919432643>>,
      <<270, 2460109, 848405172, 2459935, 1919434018>>, <<270, 2460110, 0, 2459935, 1919434853>>,
      <<270, 2460110, 848405172, 2459935, 1919435400>>,
      <<270, 2460110, 1118481067, 2459935, 1919435574>>,
      <<270, 2460111, 848405172, 2459935, 1919436788>>,
      <<270, 2460111, 2108113114, 2459935, 1919437605>>,
      <<270, 2460113, 2108113114, 2459935, 1919440407>>,
      <<270, 2460114, 536870912, 2459935, 1919440785>>,
      <<270, 2460114, 2108113114, 2459935, 1919441817>>,
      <<270, 2460115, 536870912, 2459935, 1919442196>>,
      <<270, 2460115, 2108113114, 2459935, 1919443232>>,
      <<270, 2460116, 536870912, 2459935, 1919443613>>,
      <<270, 2460116, 2108113114, 2459935, 1919444653>>,
      <<270, 2460117, 536870912, 2459935, 1919445035>>,
      <<270, 2460118, 536870912, 2460301, 293032119>>,
      <<270, 2460119, 536870912, 2460301, 293032942>>, <<270, 2460120, 0, 2460301, 293033564>>,
      <<270, 2460120, 536870912, 2460301, 293033772>>,
      <<270, 2460120, 1118481067, 2460301, 293033997>>,
      <<270, 2460121, 536870912, 2460301, 293034607>>,
      <<270, 2460122, 536870912, 2460301, 293035449>>,
      <<270, 2460123, 536870912, 2460301, 293036296>>,
      <<270, 2460124, 536870912, 2460301, 293037149>>,
      <<270, 2460125, 536870912, 2460301, 293038008>>,
      <<270, 2460126, 536870912, 2460301, 293038872>>,
      <<270, 2460127, 536870912, 2460301, 293039742>>,
      <<270, 2460128, 536870912, 2460301, 293040617>>,
      <<270, 2460129, 536870912, 2460301, 293041497>>,
      <<270, 2460130, 536870912, 2460301, 293042381>>,
      <<270, 2460130, 2108113114, 2460301, 293043032>>, <<270, 2460131, 0, 2460301, 293043048>>,
      <<270, 2460131, 24855, 2460301, 293043048>>, <<270, 2460131, 1118481067, 2460301, 293043513>>,
      <<270, 2460140, 2108113114, 2460301, 293052152>>, <<270, 2460141, 0, 2460301, 293052169>>,
      <<270, 2460141, 1072374792, 2460301, 293052634>>,
      <<270, 2460141, 1072399647, 2460301, 293052634>>,
      <<270, 2460141, 1118481067, 2460301, 293052654>>,
      <<270, 2460150, 1072374792, 2460301, 293061127>>, <<270, 2460151, 0, 2460301, 293061604>>,
      <<270, 2460151, 1072374792, 2460301, 293062080>>,
      <<270, 2460151, 1118481067, 2460301, 293062101>>,
      <<270, 2460161, 1072374792, 2460301, 293071656>>, <<270, 2460162, 0, 2460301, 293072136>>,
      <<270, 2460162, 1072374792, 2460301, 293072614>>,
      <<270, 2460162, 1118481067, 2460301, 293072634>>,
      <<270, 2460170, 1072374792, 2460301, 293080228>>,
      <<270, 2460170, 2056513855, 2460301, 293080661>>,
      <<270, 2460170, 2058005163, 2460301, 293080661>>,
      <<270, 2460170, 2059397050, 2460301, 293080662>>,
      <<270, 2460170, 2059421905, 2460301, 293080662>>,
      <<270, 2460171, 536870912, 2460301, 293080936>>,
      <<270, 2460171, 2059397050, 2460301, 293081604>>, <<270, 2460172, 0, 2460301, 293081642>>,
      <<270, 2460172, 1118481067, 2460301, 293082132>>,
      <<270, 2460181, 2059397050, 2460301, 293090846>>, <<270, 2460182, 0, 2460301, 293090883>>,
      <<270, 2460182, 1118481067, 2460301, 293091354>>,
      <<270, 2460190, 2059397050, 2460301, 293098780>>,
      <<270, 2460190, 2147458793, 2460301, 293098815>>, <<270, 2460191, 0, 2460301, 293098815>>,
      <<270, 2460191, 1118481067, 2460301, 293099260>>,
      <<270, 2460199, 2059397050, 2460301, 293106214>>,
      <<270, 2460200, 808736377, 2460301, 293106545>>,
      <<270, 2460200, 808761232, 2460301, 293106545>>, <<270, 2460201, 0, 2460301, 293107036>>,
      <<270, 2460201, 808736377, 2460301, 293107332>>,
      <<270, 2460201, 1118481067, 2460301, 293107445>>,
      <<270, 2460204, 808736377, 2460301, 293109644>>,
      <<270, 2460210, 808736377, 2460301, 293114044>>, <<270, 2460211, 0, 2460301, 293114483>>,
      <<270, 2460211, 808736377, 2460301, 293114747>>,
      <<270, 2460211, 1118481067, 2460301, 293114847>>,
      <<270, 2460221, 808736377, 2460301, 293121255>>, <<270, 2460222, 0, 2460301, 293121628>>,
      <<270, 2460222, 808736377, 2460301, 293121852>>,
      <<270, 2460222, 1118481067, 2460301, 293121937>>,
      <<270, 2460229, 808736377, 2460301, 293125746>>,
      <<270, 2460229, 1644589705, 2460301, 293125948>>,
      <<270, 2460229, 1644614560, 2460301, 293125948>>,
      <<270, 2460231, 1644589705, 2460301, 293126959>>, <<270, 2460232, 0, 2460301, 293127075>>,
      <<270, 2460232, 1118481067, 2460301, 293127330>>,
      <<270, 2460241, 1644589705, 2460301, 293131381>>, <<270, 2460242, 0, 2460301, 293131472>>,
      <<270, 2460242, 1118481067, 2460301, 293131672>>,
      <<270, 2460251, 1644589705, 2460301, 293134752>>, <<270, 2460252, 0, 2460301, 293134818>>,
      <<270, 2460252, 1118481067, 2460301, 293134964>>,
      <<270, 2460258, 1644589705, 2460301, 293136505>>,
      <<270, 2460259, 303854023, 2460301, 293136585>>,
      <<270, 2460259, 303878878, 2460301, 293136585>>,
      <<270, 2460261, 303854023, 2460301, 293136991>>, <<270, 2460262, 0, 2460301, 293137154>>,
      <<270, 2460262, 303854023, 2460301, 293137180>>,
      <<270, 2460262, 1118481067, 2460301, 293137250>>,
      <<270, 2460271, 303854023, 2460301, 293213890>>, <<270, 2460272, 0, 2460301, 293185449>>,
      <<270, 2460272, 303854023, 2460301, 293180947>>,
      <<270, 2460272, 1118481067, 2460301, 293169133>>,
      <<270, 2460282, 303854023, 2460301, 292986275>>, <<270, 2460283, 0, 2460301, 292980032>>,
      <<270, 2460283, 303854023, 2460301, 292979149>>,
      <<270, 2460283, 1118481067, 2460301, 292976978>>,
      <<270, 2460288, 303854023, 2460301, 292972739>>,
      <<270, 2460288, 1132499363, 2460301, 292974138>>,
      <<270, 2460288, 1132524218, 2460301, 292974138>>,
      <<270, 2460292, 1132499363, 2460301, 293002967>>, <<270, 2460293, 0, 2460301, 293007992>>,
      <<270, 2460293, 1118481067, 2460301, 293013899>>,
      <<270, 2460300, 1919344700, 2460301, 293133776>>,
      <<270, 2460302, 1132499363, 2460301, 293167963>>, <<270, 2460303, 0, 2460301, 293178265>>,
      <<270, 2460303, 1118481067, 2460301, 293189816>>,
      <<270, 2460312, 1132499363, 2460301, 293137864>>, <<270, 2460313, 0, 2460301, 293137826>>,
      <<270, 2460313, 1118481067, 2460301, 293137784>>,
      <<270, 2460317, 1132499363, 2460301, 293137461>>,
      <<270, 2460317, 2056513855, 2460301, 293137426>>,
      <<270, 2460317, 2056538710, 2460301, 293137426>>,
      <<270, 2460321, 1072391140, 2460301, 293137151>>,
      <<270, 2460322, 2056513855, 2460301, 293137043>>, <<270, 2460323, 0, 2460301, 293137040>>,
      <<270, 2460323, 1118481067, 2460301, 293137002>>,
      <<270, 2460324, 2056513855, 2460301, 293136901>>,
      <<270, 2460325, 1409286144, 2460301, 293136854>>,
      <<270, 2460332, 2056513855, 2460301, 293136441>>, <<270, 2460333, 0, 2460301, 293136440>>,
      <<270, 2460333, 1118481067, 2460301, 293136417>>, <<270, 2460342, 0, 2460301, 293136226>>,
      <<270, 2460343, 2056513855, 2460301, 293136235>>, <<270, 2460344, 0, 2460301, 293136235>>,
      <<270, 2460344, 1118481067, 2460301, 293136242>>,
      <<270, 2460346, 2056513855, 2460301, 293136294>>,
      <<270, 2460347, 1006061292, 2460301, 293136309>>,
      <<270, 2460347, 1006086147, 2460301, 293136309>>,
      <<270, 2460350, 2059416712, 2460301, 293136464>>,
      <<270, 2460353, 1006061292, 2460301, 293136628>>, <<270, 2460354, 0, 2460301, 293136669>>,
      <<270, 2460354, 1006061292, 2460301, 293136707>>,
      <<270, 2460354, 1118481067, 2460301, 293136711>>,
      <<270, 2460363, 1006061292, 2460301, 293137781>>, <<270, 2460364, 0, 2460301, 293137867>>,
      <<270, 2460364, 1006061292, 2460301, 293137944>>,
      <<270, 2460364, 1118481067, 2460301, 293137953>>,
      <<270, 2460374, 1006061292, 2460301, 293140098>>, <<270, 2460375, 0, 2460301, 293140241>>,
      <<270, 2460375, 1006061292, 2460301, 293140369>>,
      <<270, 2460375, 1118481067, 2460301, 293140383>>,
      <<270, 2460376, 1006061292, 2460301, 293140650>>,
      <<270, 2460377, 174731598, 2460301, 293140828>>,
      <<270, 2460377, 174756453, 2460301, 293140828>>,
      <<270, 2460380, 808750535, 2460301, 293141852>>,
      <<270, 2460384, 174731598, 2460301, 293143146>>, <<270, 2460385, 0, 2460301, 293143491>>,
      <<270, 2460385, 174731598, 2460301, 293143522>>,
      <<270, 2460385, 1118481067, 2460301, 293143691>>,
      <<270, 2460394, 174731598, 2460301, 293147427>>, <<270, 2460395, 0, 2460301, 293147879>>,
      <<270, 2460395, 174731598, 2460301, 293147920>>,
      <<270, 2460395, 1118481067, 2460301, 293148140>>,
      <<270, 2460404, 174731598, 2460301, 293152907>>, <<270, 2460405, 0, 2460301, 293153473>>,
      <<270, 2460405, 174731598, 2460301, 293153523>>,
      <<270, 2460405, 1118481067, 2460301, 293153798>>,
      <<270, 2460406, 174731598, 2460301, 293154152>>,
      <<270, 2460406, 1686669449, 2460301, 293154602>>,
      <<270, 2460406, 1686694304, 2460301, 293154602>>,
      <<270, 2460409, 1644608149, 2460301, 293156575>>,
      <<270, 2460414, 1686669449, 2460301, 293160151>>, <<270, 2460415, 0, 2460301, 293160311>>,
      <<270, 2460415, 1118481067, 2460301, 293160701>>,
      <<270, 2460424, 1686669449, 2460301, 293168217>>, <<270, 2460425, 0, 2460301, 293168403>>,
      <<270, 2460425, 1118481067, 2460301, 293168859>>,
      <<270, 2460435, 1686669449, 2460301, 293178513>>, <<270, 2460436, 0, 2460301, 293178729>>,
      <<270, 2460436, 1118481067, 2460301, 293179254>>,
      <<270, 2460436, 1146716500, 2460301, 293179267>>,
      <<270, 2460436, 1146741355, 2460301, 293179267>>,
      <<270, 2460439, 303869628, 2460301, 293181943>>,
      <<270, 2460445, 1146716500, 2460301, 293188831>>, <<270, 2460446, 0, 2460301, 293189351>>,
      <<270, 2460446, 1118481067, 2460301, 293189935>>,
      <<270, 2460455, 1146716500, 2460301, 293200493>>, <<270, 2460456, 0, 2460301, 293201062>>,
      <<270, 2460456, 1118481067, 2460301, 293201699>>,
      <<270, 2460465, 1146716500, 2460301, 293213129>>, <<270, 2460466, 0, 2460301, 293213740>>,
      <<270, 2460466, 571419549, 2460301, 293214089>>,
      <<270, 2460466, 571444405, 2460301, 293214089>>,
      <<270, 2460466, 1118481067, 2460301, 293214424>>,
      <<270, 2460468, 1132503169, 2460301, 293217080>>,
      <<270, 2460470, 571419549, 2460301, 293219407>>,
      <<270, 2460475, 571419549, 2460301, 293226221>>, <<270, 2460476, 0, 2460301, 293227235>>,
      <<270, 2460476, 571419549, 2460301, 293227604>>,
      <<270, 2460476, 1118481067, 2460301, 293227958>>,
      <<270, 2460479, 571419549, 2460301, 293231791>>,
      <<270, 2460480, 536870912, 2460301, 293233176>>,
      <<270, 2460480, 571419549, 2460301, 293233199>>,
      <<270, 2460481, 536870912, 2460301, 293234589>>,
      <<270, 2460481, 571419549, 2460301, 293234612>>,
      <<270, 2460482, 536870912, 2460301, 293236007>>,
      <<270, 2460483, 536870912, 2460666, 814307061>>,
      <<270, 2460484, 536870912, 2460666, 814307881>>,
      <<270, 2460485, 536870912, 2460666, 814308706>>, <<270, 2460486, 0, 2460666, 814309329>>,
      <<270, 2460486, 536870912, 2460666, 814309537>>,
      <<270, 2460486, 1118481067, 2460666, 814309764>>,
      <<270, 2460487, 536870912, 2460666, 814310375>>,
      <<270, 2460488, 536870912, 2460666, 814311218>>,
      <<270, 2460489, 536870912, 2460666, 814312067>>,
      <<270, 2460490, 536870912, 2460666, 814312922>>,
      <<270, 2460491, 536870912, 2460666, 814313783>>,
      <<270, 2460492, 536870912, 2460666, 814314648>>,
      <<270, 2460493, 536870912, 2460666, 814315519>>,
      <<270, 2460494, 536870912, 2460666, 814316395>>,
      <<270, 2460495, 536870912, 2460666, 814317276>>,
      <<270, 2460495, 2011103523, 2460666, 814317884>>,
      <<270, 2460495, 2011128378, 2460666, 814317884>>,
      <<270, 2460496, 536870912, 2460666, 814318162>>,
      <<270, 2460497, 2056523128, 2460666, 814319686>>,
      <<270, 2460527, 1006070375, 2460666, 814347381>>,
      <<270, 2460557, 174743049, 2460666, 814374497>>,
      <<270, 2460586, 1686676843, 2460666, 814396278>>,
      <<270, 2460616, 1146722271, 2460666, 814409516>>,
      <<270, 2460646, 571428855, 2460666, 814272379>>,
      <<270, 2460666, 293136226, 2460666, 814408685>>,
      <<270, 2460707, 536870912, 2460666, 814411130>>,
      <<270, 2461031, 814411130, 2461031, 1335683325>>,
      <<270, 2678193, 139810133, 2678351, 57486051>>, <<270, 2678194, 0, 2678351, 57485998>>,
      <<270, 2678194, 139810133, 2678351, 57485994>>,
      <<270, 2678194, 1684656183, 2678351, 57485953>>,
      <<270, 2678194, 1684681038, 2678351, 57485954>>,
      <<270, 2678194, 1684705893, 2678351, 57485953>>,
      <<270, 2678195, 1118481067, 2678351, 57485913>>,
      <<270, 2678374, 1684681038, 2678351, 57582443>>,
      <<270, 2678396, 536870912, 2678351, 57668975>>,
      <<270, 2678404, 1244824842, 2678351, 57668878>>,
      <<270, 2678434, 822183755, 2678351, 57356751>>,
      <<270, 2678464, 245982000, 2678351, 57487678>>,
      <<270, 2678493, 1554459453, 2678351, 57489439>>,
      <<270, 2678523, 445182189, 2678351, 57492480>>,
      <<270, 2678552, 1279041346, 2678716, 578582055>>,
      <<270, 2678581, 1998898175, 2678716, 578580760>>,
      <<270, 2678611, 540915213, 2678716, 578580691>>,
      <<270, 2678640, 1267653391, 2678716, 578581310>>,
      <<270, 2678669, 2089567551, 2678716, 578581985>>,
      <<270, 2678699, 917703357, 2678716, 578625330>>,
      <<270, 2678716, 57668975, 2678716, 578582092>>,
      <<270, 2678761, 1073741824, 2678716, 578763326>>,
      <<270, 2679081, 578763326, 2679081, 1099677361>>,
      <<270, 3103789, 1739884292, 3103858, 1295945587>>,
      <<270, 3103790, 518055575, 3103858, 1295947217>>,
      <<270, 3103790, 518080430, 3103858, 1295947217>>,
      <<270, 3103790, 518105285, 3103858, 1295947217>>,
      <<270, 3103881, 1481412850, 3103858, 1296091356>>,
      <<270, 3103911, 626946050, 3103858, 1296130949>>,
      <<270, 3103912, 1073741824, 3103858, 1296099899>>,
      <<270, 3103940, 1739889220, 3103858, 1296088525>>,
      <<270, 3103970, 518080430, 3103858, 1296115744>>,
      <<270, 3103999, 1297482563, 3103858, 1296177031>>,
      <<270, 3104028, 2006908430, 3103858, 1296268603>>,
      <<270, 3104058, 586837911, 3104223, 1816733529>>,
      <<270, 3104087, 1412120662, 3104223, 1816734823>>,
      <<270, 3104117, 249440171, 3104223, 1816735998>>,
      <<270, 3104146, 1433870703, 3104223, 1816563215>>,
      <<270, 3104176, 685034943, 3104223, 1816665645>>,
      <<270, 3104206, 124046262, 3104223, 1816722596>>,
      <<270, 3104223, 1296099899, 3104223, 1816717042>>,
      <<270, 3104277, 1610612736, 3104223, 1816754067>>,
      <<270, 3104588, 1816754067, 3104589, 189884718>>,
      <<270, 3226873, 889838682, 3226945, 637535030>>,
      <<270, 3226873, 1963655071, 3226945, 637535066>>,
      <<270, 3226873, 1963679926, 3226945, 637535066>>,
      <<270, 3226873, 1963704781, 3226945, 637535066>>,
      <<270, 3226965, 209369517, 3226945, 637555233>>,
      <<270, 3226994, 1731352660, 3226945, 637551564>>,
      <<270, 3227001, 1610612736, 3226945, 637549250>>,
      <<270, 3227024, 889839879, 3226945, 637548592>>,
      <<270, 3227053, 1963679926, 3226945, 637585238>>,
      <<270, 3227083, 700658709, 3226945, 637685919>>,
      <<270, 3227112, 1456827235, 3226945, 637540775>>,
      <<270, 3227141, 2144735702, 3227310, 1158029761>>,
      <<270, 3227171, 680497450, 3227310, 1158033058>>,
      <<270, 3227200, 1436534967, 3227310, 1158036215>>,
      <<270, 3227230, 208798091, 3227310, 1158038885>>,
      <<270, 3227259, 1377084868, 3227310, 1157856656>>,
      <<270, 3227289, 682251865, 3227310, 1157993355>>,
      <<270, 3227310, 637549250, 3227310, 1158001398>>, <<270, 3227367, 0, 3227310, 1158053821>>,
      <<270, 3227675, 1158053821, 3227675, 1678505393>>,
      <<300, 2429638, 1243839741, 2429650, 406620683>>,
      <<300, 2429668, 695051645, 2429650, 406838423>>,
      <<300, 2429698, 213852684, 2429650, 406818817>>,
      <<300, 2429727, 1817540592, 2429650, 406827271>>,
      <<300, 2429757, 1083958247, 2429650, 406840273>>,
      <<300, 2429787, 97122130, 2429650, 406855157>>,
      <<300, 2429816, 1026231224, 2429650, 406868625>>,
      <<300, 2429845, 1804368424, 2430015, 928084215>>,
      <<300, 2429875, 382007359, 2430015, 928106840>>,
      <<300, 2429904, 1136856483, 2430015, 928122441>>,
      <<300, 2429933, 1974753954, 2430015, 928131064>>,
      <<300, 2429963, 779722869, 2430015, 928133959>>,
      <<300, 2460321, 1072391140, 2460330, 1247317622>>,
      <<300, 2460350, 2059416712, 2460330, 1247505691>>,
      <<300, 2460380, 808750535, 2460330, 1247483880>>,
      <<300, 2460409, 1644608149, 2460330, 1247493657>>,
      <<300, 2460439, 303869628, 2460330, 1247508807>>,
      <<300, 2460468, 1132503169, 2460330, 1247526622>>,
      <<300, 2460497, 2056523128, 2460330, 1247543523>>,
      <<300, 2460527, 1006070375, 2460695, 1768735485>>,
      <<300, 2460557, 174743049, 2460695, 1768761228>>,
      <<300, 2460586, 1686676843, 2460695, 1768779143>>,
      <<300, 2460616, 1146722271, 2460695, 1768789026>>,
      <<300, 2460646, 571428855, 2460695, 1768792248>>,
      <<300, 2678374, 1684681038, 2678380, 1066010798>>,
      <<300, 2678404, 1244824842, 2678380, 1066145250>>,
      <<300, 2678434, 822183755, 2678380, 1066149761>>,
      <<300, 2678464, 245982000, 2678380, 1066163815>>,
      <<300, 2678493, 1554459453, 2678380, 1066187995>>,
      <<300, 2678523, 445182189, 2678380, 1066219788>>,
      <<300, 2678552, 1279041346, 2678380, 1066254677>>,
      <<300, 2678581, 1998898175, 2678745, 1587298258>>,
      <<300, 2678611, 540915213, 2678745, 1587335616>>,
      <<300, 2678640, 1267653391, 2678745, 1587364064>>,
      <<300, 2678669, 2089567551, 2678745, 1587381630>>,
      <<300, 2678699, 917703357, 2678745, 1587388890>>,
      <<300, 3103881, 1481412850, 3103888, 443947096>>,
      <<300, 3103911, 626946050, 3103888, 444127822>>,
      <<300, 3103940, 1739889220, 3103888, 444053201>>,
      <<300, 3103970, 518080430, 3103888, 443969354>>,
      <<300, 3103999, 1297482563, 3103888, 443973147>>,
      <<300, 3104028, 2006908430, 3103888, 443979621>>,
      <<300, 3104058, 586837911, 3103888, 443988744>>,
      <<300, 3104087, 1412120662, 3104253, 964941637>>,
      <<300, 3104117, 249440171, 3104253, 964946167>>,
      <<300, 3104146, 1433870703, 3104253, 964951362>>,
      <<300, 3104176, 685034943, 3104253, 964955913>>,
      <<300, 3104206, 124046262, 3104253, 964958831>>,
      <<300, 3226965, 209369517, 3226974, 2055768122>>,
      <<300, 3226994, 1731352660, 3226974, 2055780770>>,
      <<300, 3227024, 889839879, 3226974, 2055790866>>,
      <<300, 3227053, 1963679926, 3226974, 2055656977>>,
      <<300, 3227083, 700658709, 3226974, 2055763756>>,
      <<300, 3227112, 1456827235, 3226974, 2055764071>>,
      <<300, 3227141, 2144735702, 3226974, 2055764675>>,
      <<300, 3227171, 680497450, 3227340, 429173825>>,
      <<300, 3227200, 1436534967, 3227340, 429173101>>,
      <<300, 3227230, 208798091, 3227340, 429361546>>,
      <<300, 3227259, 1377084868, 3227340, 429172713>>,
      <<300, 3227289, 682251865, 3227340, 429371414>>,
      <<330, 2429638, 1243839741, 2429679, 1691150476>>,
      <<330, 2429668, 695051645, 2429679, 1691299942>>,
      <<330, 2429698, 213852684, 2429679, 1691326312>>,
      <<330, 2429727, 1817540592, 2429679, 1691401279>>,
      <<330, 2429757, 1083958247, 2429679, 1691306875>>,
      <<330, 2429787, 97122130, 2429679, 1691308179>>,
      <<330, 2429816, 1026231224, 2429679, 1691309788>>,
      <<330, 2429845, 1804368424, 2429679, 1691311530>>,
      <<330, 2429875, 382007359, 2430045, 64656412>>,
      <<330, 2429904, 1136856483, 2430045, 64762241>>,
      <<330, 2429933, 1974753954, 2430045, 64828168>>,
      <<330, 2429963, 779722869, 2430045, 64851710>>,
      <<330, 2460321, 1072391140, 2460360, 360205325>>,
      <<330, 2460350, 2059416712, 2460360, 360306031>>,
      <<330, 2460380, 808750535, 2460360, 360328885>>,
      <<330, 2460409, 1644608149, 2460360, 360392044>>,
      <<330, 2460439, 303869628, 2460360, 360503417>>,
      <<330, 2460468, 1132503169, 2460360, 360311842>>,
      <<330, 2460497, 2056523128, 2460360, 360313105>>,
      <<330, 2460527, 1006070375, 2460360, 360314487>>,
      <<330, 2460557, 174743049, 2460725, 881183159>>,
      <<330, 2460586, 1686676843, 2460725, 881272734>>,
      <<330, 2460616, 1146722271, 2460725, 881328194>>,
      <<330, 2460646, 571428855, 2460725, 881347350>>,
      <<330, 2678374, 1684681038, 2678410, 43833592>>,
      <<330, 2678404, 1244824842, 2678410, 43767086>>,
      <<330, 2678434, 822183755, 2678410, 43836111>>,
      <<330, 2678464, 245982000, 2678410, 43847649>>,
      <<330, 2678493, 1554459453, 2678410, 43869892>>,
      <<330, 2678523, 445182189, 2678410, 43904371>>,
      <<330, 2678552, 1279041346, 2678410, 43950510>>,
      <<330, 2678581, 1998898175, 2678410, 44004517>>,
      <<330, 2678611, 540915213, 2678775, 564869301>>,
      <<330, 2678640, 1267653391, 2678775, 564886491>>,
      <<330, 2678669, 2089567551, 2678775, 564898789>>,
      <<330, 2678699, 917703357, 2678775, 564904274>>,
      <<330, 3103881, 1481412850, 3103917, 1495931214>>,
      <<330, 3103911, 626946050, 3103917, 1496070144>>,
      <<330, 3103940, 1739889220, 3103917, 1496012566>>,
      <<330, 3103970, 518080430, 3103917, 1496096269>>,
      <<330, 3103999, 1297482563, 3103917, 1496098188>>,
      <<330, 3104028, 2006908430, 3103917, 1496100762>>,
      <<330, 3104058, 586837911, 3103917, 1496103173>>,
      <<330, 3104087, 1412120662, 3103917, 1496104541>>,
      <<330, 3104117, 249440171, 3104282, 2017121493>>,
      <<330, 3104146, 1433870703, 3104282, 2017127117>>,
      <<330, 3104176, 685034943, 3104282, 2017130815>>,
      <<330, 3104206, 124046262, 3104282, 2017132776>>,
      <<330, 3226965, 209369517, 3227004, 986111075>>,
      <<330, 3226994, 1731352660, 3227004, 986185082>>,
      <<330, 3227024, 889839879, 3227004, 986245045>>,
      <<330, 3227053, 1963679926, 3227004, 986248527>>,
      <<330, 3227083, 700658709, 3227004, 986251702>>,
      <<330, 3227112, 1456827235, 3227004, 986256841>>,
      <<330, 3227141, 2144735702, 3227004, 986263109>>,
      <<330, 3227171, 680497450, 3227004, 986269238>>,
      <<330, 3227200, 1436534967, 3227369, 1507224338>>,
      <<330, 3227230, 208798091, 3227369, 1507234040>>,
      <<330, 3227259, 1377084868, 3227369, 1507241229>>,
      <<330, 3227289, 682251865, 3227369, 1507245617>> }

NewMoonFunction ==
    [k \in {e[1] : e \in NewMoonTable} |->
        LET e == CHOOSE e \in NewMoonTable : e[1] = k IN JD(e[2], e[3])]

SolarTermFunction ==
    [a \in {<<e[1], e[2], e[3]>> : e \in SolarTermTable} |->
        LET e == CHOOSE e \in SolarTermTable : <<e[1], e[2], e[3]>> = a
        IN  JD(e[4], e[5])]

calculate_new_moon(k) == NewMoonFunction[k]

find_solar_term(longitude, start_jd) ==
    SolarTermFunction[<<longitude, start_jd.day, start_jd.frac>>]

(***************************************************************************)
(* round((x - 2451550.09766) / 29.530588861), calendar.py 430-431, 575,    *)
(* 592, 639, 646.  The nearest integer k is the one whose remainder        *)
(* x - 2451550.09766 - k * 29.530588861 lies within half a synodic month   *)
(* (14765294 microdays); the remainder is computed in microdays.           *)
(***************************************************************************)
\* floor(N * 10^6 / 2^31), 10^6 = 2^6 * 15625
MicroDays(N) ==
    LET hi == N \div Two16
        lo == N % Two16
    IN  (hi * 15625 + (lo * 15625) \div Two16) \div 512

Remainder(x, k) ==
    LET A == k * 53058
    IN  (x.day - 2451550 - 29 * k - A \div 100000) * 1000000 - 597660
          + MicroDays(x.frac) - (A % 100000) * 10 - (k * 8861) \div 1000

NewMoonIndex(x) ==
    LET guess == ((x.day - 2451550) * 1000) \div 29531
    IN  CHOOSE k \in (guess - 2)..(guess + 2) :
            /\ -14765294 <= Remainder(x, k)
            /\ Remainder(x, k) <= 14765294

(***************************************************************************)
(* ChineseLunarCalendar.__init__, calendar.py 267-278.                     *)
(***************************************************************************)
\* self.base_julian, read at lines 426 and 638
base_julian == self.base_julian

\* base_julian + (lunar_year - 1900) * 365.25: a multiple of 1/4 day
YearStart(lunar_year) ==
    LET quarters == (lunar_year - 1900) * 1461
    IN  JD(base_julian.day + quarters \div 4, (quarters % 4) * 536870912)

(***************************************************************************)
(* is_leap_month_year, calendar.py 419-456.  Returns <<has_leap, month>>.  *)
(***************************************************************************)
major_terms == <<330, 0, 30, 60, 90, 120, 150, 180, 210, 240, 270, 300>>

\* month_start <= term_jd < month_end for one of major_terms[i..12]
RECURSIVE HasMajorTermFrom(_, _, _)
HasMajorTermFrom(i, month_start, month_end) ==
    IF i > Len(major_terms) THEN FALSE
    ELSE LET term_jd == find_solar_term(major_terms[i], month_start)
         IN  IF JDLeq(month_start, term_jd) /\ JDLess(term_jd, month_end)
             THEN TRUE
             ELSE HasMajorTermFrom(i + 1, month_start, month_end)

\* faulty variant: the scan gives up after the first month it examines
LeapScanFirstMonthOnly(month, has_major_term) ==
    IF month > 12 \/ has_major_term[month] THEN <<TRUE, 12>> ELSE <<TRUE, month>>

\* the for loop over month in range(1, 13), from month on; has_major_term[m]
\* is the value of has_major_term at line 453 in the iteration of month m
RECURSIVE LeapScan(_, _)
LeapScan(month, has_major_term) ==
    IF month > 12 THEN <<TRUE, 12>>
    ELSE IF ~has_major_term[month]
         THEN <<TRUE, month>>
         ELSE LeapScan(month + 1, has_major_term)

\* lines 441-451 for the months after the new moon k_start
MajorTermInMonth(k_start) ==
    [month \in 1..12 |->
        LET k == k_start + month
            month_start == calculate_new_moon(k)
            month_end == calculate_new_moon(k + 1)
        IN  HasMajorTermFrom(1, month_start, month_end)]

NewMoonCount(lunar_year) ==
    LET winter_solstice_1 == find_solar_term(270, YearStart(lunar_year))
        winter_solstice_2 ==
            find_solar_term(270, JDPlusDays(winter_solstice_1, 365))
    IN  NewMoonIndex(winter_solstice_2) - NewMoonIndex(winter_solstice_1)

is_leap_month_year(lunar_year) ==
    LET winter_solstice_1 == find_solar_term(270, YearStart(lunar_year))
        k_start == NewMoonIndex(winter_solstice_1)
    IN  IF NewMoonCount(lunar_year) = 13
        THEN LeapScan(1, MajorTermInMonth(k_start))
        ELSE <<TRUE, 12>>

(***************************************************************************)
(* HeavenlyStems and EarthlyBranches, calendar.py 58-246.  A stem or a     *)
(* branch object is identified by its pinyin name; position i of a table   *)
(* is index i - 1 of the Python list.                                      *)
(***************************************************************************)
stems == <<"jia3", "yi3", "bing3", "ding1", "wu4", "ji3", "geng1", "xin1", "ren2", "gui3">>

branches ==
    <<"zi3", "chou3", "yin2", "mao3", "chen2", "si4", "wu3", "wei4", "shen1", "you3", "xu1",
      "hai4">>

\* hour_range of each branch, in the order of the list
hour_range ==
    << <<23, 1>>, <<1, 3>>, <<3, 5>>, <<5, 7>>, <<7, 9>>, <<9, 11>>, <<11, 13>>, <<13, 15>>,
       <<15, 17>>, <<17, 19>>, <<19, 21>>, <<21, 23>> >>

None == "None"

\* HeavenlyStems.__init__ and EarthlyBranches.__init__: the list and the
\* by_index dict built from it, lines 117 and 226
HeavenlyStems ==
    [stems |-> stems, by_index |-> [i \in 0..(Len(stems) - 1) |-> stems[i + 1]]]

EarthlyBranches ==
    [branches |-> branches,
     by_index |-> [i \in 0..(Len(branches) - 1) |-> branches[i + 1]]]

\* ChineseLunarCalendar.__init__, lines 267-278; a float constant is kept
\* as <<integer part, billionths>>
ChineseLunarCalendar ==
    [base_date |-> DateTime(1900, 1, 31, 0, 0, 0),
     base_julian |-> gregorian_to_julian(DateTime(1900, 1, 31, 0, 0, 0)),
     LUNAR_MONTH |-> <<29, 530588853>>,
     TROPICAL_YEAR |-> <<365, 242198780>>,
     heavenly_stems |-> HeavenlyStems,
     earthly_branches |-> EarthlyBranches]

\* dict.get(key): None when the key is missing
DictGet(dict, key) == IF key \in DOMAIN dict THEN dict[key] ELSE None

\* list.index(x)
StemIndex(stem) == CHOOSE i \in 0..9 : self.heavenly_stems.stems[i + 1] = stem
BranchIndex(branch) == CHOOSE i \in 0..11 : self.earthly_branches.branches[i + 1] = branch

\* faulty variant: the index looked up without the reduction modulo 10
StemByIndexNoModulo(index) == DictGet(self.heavenly_stems.by_index, index)

\* HeavenlyStems.get_by_index / EarthlyBranches.get_by_index:
\* by_index.get(index % n); Python's % yields 0..n-1 for every integer
StemByIndex(index) == DictGet(self.heavenly_stems.by_index, index % 10)
BranchByIndex(index) == DictGet(self.earthly_branches.by_index, index % 12)

\* faulty variant: the period that crosses midnight is not handled
is_active_time_no_wrap(b, hour) ==
    LET start == hour_range[b + 1][1]
        end == hour_range[b + 1][2]
    IN  start <= hour /\ hour < end

\* EarthlyBranch.is_active_time, for the branch at list index b
is_active_time(b, hour) ==
    LET start == hour_range[b + 1][1]
        end == hour_range[b + 1][2]
    IN  IF start <= end
        THEN start <= hour /\ hour < end
        ELSE hour >= start \/ hour < end

\* EarthlyBranches.get_by_hour: the first branch of the list that is active
get_by_hour(hour) ==
    IF \E b \in 0..11 : is_active_time(b, hour)
    THEN LET first == CHOOSE b \in 0..11 :
                          /\ is_active_time(b, hour)
                          /\ \A c \in 0..(b - 1) : ~is_active_time(c, hour)
         IN  self.earthly_branches.branches[first + 1]
    ELSE None

(***************************************************************************)
(* Sexagenary pillar calculator, calendar.py 458-561.  A pillar is the     *)
(* pair <<stem, branch>>.                                                  *)
(***************************************************************************)
\* faulty variant: the branch taken from number instead of number - 1
get_stem_branch_pair_branch_shifted(number) ==
    <<StemByIndex((number - 1) % 10), BranchByIndex(number % 12)>>

get_stem_branch_pair(number) ==
    <<StemByIndex((number - 1) % 10), BranchByIndex((number - 1) % 12)>>

\* faulty variant: 1863 taken as the first year of the cycle
get_year_stem_branch_from_1863(lunar_year) ==
    LET year_number == ((lunar_year - 1863) % 60) + 1
    IN  get_stem_branch_pair(year_number)

get_year_stem_branch(lunar_year) ==
    LET year_number == ((lunar_year - 1864) % 60) + 1
    IN  get_stem_branch_pair(year_number)

\* faulty variant: the table of the hour stems used for the months
month_stem_base_of_hours == <<0, 2, 4, 6, 8, 0, 2, 4, 6, 8>>

month_stem_base == <<2, 4, 6, 8, 0, 2, 4, 6, 8, 0>>

\* int(lunar_month - 1 - 0.5) when is_leap: int() truncates towards zero
MonthOffset(lunar_month, is_leap) ==
    IF ~is_leap THEN lunar_month - 1
    ELSE IF lunar_month >= 2 THEN lunar_month - 2
    ELSE lunar_month - 1

get_month_stem_branch(lunar_year, lunar_month, is_leap) ==
    LET year_stem_index == ((lunar_year - 1864) % 60) % 10
        base_stem == month_stem_base[year_stem_index + 1]
        month_offset == MonthOffset(lunar_month, is_leap)
    IN  <<StemByIndex((base_stem + month_offset) % 10),
          BranchByIndex((2 + month_offset) % 12)>>

\* int(julian_day - ref_jd), ref_jd = gregorian_to_julian(datetime(1900, 1, 1))
DaysSinceRef(julian_day) ==
    LET ref_jd == gregorian_to_julian(DateTime(1900, 1, 1, 0, 0, 0))
        whole == julian_day.day - ref_jd.day
    IN  IF whole < 0 /\ julian_day.frac > 0 THEN whole + 1 ELSE whole

\* faulty variant: the reference day taken as day 10 of the cycle
DayNumberFromTen(julian_day) ==
    LET day_number == (10 + DaysSinceRef(julian_day)) % 60
    IN  IF day_number = 0 THEN 60 ELSE day_number

DayNumber(julian_day) ==
    LET day_number == (11 + DaysSinceRef(julian_day)) % 60
    IN  IF day_number = 0 THEN 60 ELSE day_number

get_day_stem_branch(julian_day) == get_stem_branch_pair(DayNumber(julian_day))

\* faulty variant: the table of the month stems used for the hours
hour_stem_base_of_months == <<2, 4, 6, 8, 0, 2, 4, 6, 8, 0>>

hour_stem_base == <<0, 2, 4, 6, 8, 0, 2, 4, 6, 8>>

get_hour_stem_branch(date, day_stem) ==
    LET hour_branch == get_by_hour(date.hour)
        day_stem_index == StemIndex(day_stem)
        base_stem == hour_stem_base[day_stem_index + 1]
        branch_index == BranchIndex(hour_branch)
    IN  <<StemByIndex((base_stem + branch_index) % 10), hour_branch>>

(***************************************************************************)
(* gregorian_to_lunar, calendar.py 563-630.                                *)
(***************************************************************************)
\* faulty variant: the floor one year too high
GregorianYearRejectedFrom1941(date) == date.year < 1941

\* the range check of gregorian_to_lunar, lines 565-566
GregorianYearRejected(date) == date.year < 1940

\* the range check of lunar_to_gregorian, lines 634-635
LunarYearRejected(lunar_date) == lunar_date.year < 1940

\* lines 568-592: the state of the month walk when the loop is entered
WalkStart(date) ==
    LET target_jd == gregorian_to_julian(date)
        approx_year == date.year
        winter_solstice == find_solar_term(270, JDPlusDays(target_jd, -180))
        k_winter == NewMoonIndex(winter_solstice)
        before == JDLess(target_jd, calculate_new_moon(k_winter))
        lunar_new_year == IF before THEN calculate_new_moon(k_winter - 12)
                          ELSE calculate_new_moon(k_winter)
        lunar_year == IF before THEN approx_year - 1 ELSE approx_year
        leap == is_leap_month_year(lunar_year)
    IN  [target_jd |-> target_jd, lunar_year |-> lunar_year,
         has_leap |-> leap[1], leap_month_num |-> leap[2],
         month |-> 1, is_leap_month |-> FALSE,
         k |-> NewMoonIndex(lunar_new_year)]

\* faulty variant: the interval open at its start and closed at its end
InMonthClosedEnd(month_start, target_jd, month_end) ==
    JDLess(month_start, target_jd) /\ JDLeq(target_jd, month_end)

\* line 598: month_start <= target_jd < month_end
InMonth(month_start, target_jd, month_end) ==
    JDLeq(month_start, target_jd) /\ JDLess(target_jd, month_end)

MonthFound(w) ==
    InMonth(calculate_new_moon(w.k), w.target_jd, calculate_new_moon(w.k + 1))

\* faulty variant: the leap flag set on the step into month leap_month_num
NextLabelLeapOnEntry(month, is_leap_month, has_leap, leap_month_num) ==
    IF has_leap /\ month + 1 = leap_month_num /\ ~is_leap_month
    THEN [month |-> month + 1, is_leap_month |-> TRUE]
    ELSE [month |-> month + 1, is_leap_month |-> FALSE]

\* lines 604-608: the label of the next new-moon interval
NextLabel(month, is_leap_month, has_leap, leap_month_num) ==
    IF has_leap /\ month = leap_month_num /\ ~is_leap_month
    THEN [month |-> month, is_leap_month |-> TRUE]
    ELSE [month |-> month + 1, is_leap_month |-> FALSE]

\* faulty variant: the lunar year is not incremented when the ordinal
\* passes 12
WalkAdvanceWithoutYearStep(w, next_leap) ==
    LET label == NextLabel(w.month, w.is_leap_month, w.has_leap, w.leap_month_num)
        rolls == label.month > 12
        leap == IF rolls THEN next_leap ELSE <<w.has_leap, w.leap_month_num>>
    IN  [target_jd |-> w.target_jd,
         lunar_year |-> w.lunar_year,
         has_leap |-> leap[1], leap_month_num |-> leap[2],
         month |-> IF rolls THEN 1 ELSE label.month,
         is_leap_month |-> label.is_leap_month,
         k |-> w.k + 1]

\* lines 603-613: one iteration of the loop that does not break, next_leap
\* being what is_leap_month_year(lunar_year + 1) returns at line 613
WalkAdvanceWith(w, next_leap) ==
    LET label == NextLabel(w.month, w.is_leap_month, w.has_leap, w.leap_month_num)
        rolls == label.month > 12
        leap == IF rolls THEN next_leap ELSE <<w.has_leap, w.leap_month_num>>
    IN  [target_jd |-> w.target_jd,
         lunar_year |-> IF rolls THEN w.lunar_year + 1 ELSE w.lunar_year,
         has_leap |-> leap[1], leap_month_num |-> leap[2],
         month |-> IF rolls THEN 1 ELSE label.month,
         is_leap_month |-> label.is_leap_month,
         k |-> w.k + 1]

WalkAdvance(w) == WalkAdvanceWith(w, is_leap_month_year(w.lunar_year + 1))

\* faulty variant: the iteration is left before the locals are advanced
WalkIterationSameInterval(w) == w

\* one iteration of the while loop that does not break
WalkIteration(w) == WalkAdvance(w)

\* faulty variant: the day counted from 0
DayOfMonthFromZero(target_jd, month_start) ==
    IF target_jd.frac >= month_start.frac
    THEN target_jd.day - month_start.day
    ELSE target_jd.day - month_start.day - 1

\* int(target_jd - month_start) + 1, line 600 (target_jd >= month_start)
DayOfMonth(target_jd, month_start) ==
    (IF target_jd.frac >= month_start.frac
     THEN target_jd.day - month_start.day
     ELSE target_jd.day - month_start.day - 1) + 1

\* lines 600 and 615-630: the LunarDate returned when the loop breaks
LunarDateOf(date, w) ==
    LET years_since_start == w.lunar_year - 1864
        year_pillar == get_year_stem_branch(w.lunar_year)
        month_pillar == get_month_stem_branch(w.lunar_year, w.month, w.is_leap_month)
        day_pillar == get_day_stem_branch(w.target_jd)
        hour_pillar == get_hour_stem_branch(date, day_pillar[1])
    IN  [year |-> w.lunar_year, month |-> w.month,
         day |-> DayOfMonth(w.target_jd, calculate_new_moon(w.k)),
         is_leap_month |-> w.is_leap_month,
         cycle |-> (years_since_start \div 60) + 1,
         year_in_cycle |-> (years_since_start % 60) + 1,
         year_stem |-> year_pillar[1], year_branch |-> year_pillar[2],
         month_stem |-> month_pillar[1], month_branch |-> month_pillar[2],
         day_stem |-> day_pillar[1], day_branch |-> day_pillar[2],
         hour_stem |-> hour_pillar[1], hour_branch |-> hour_pillar[2]]

(***************************************************************************)
(* lunar_to_gregorian, calendar.py 632-659.                                *)
(***************************************************************************)
\* faulty variant: the leap interval is never skipped
RECURSIVE MirrorWalkNoSkip(_, _, _, _, _)
MirrorWalkNoSkip(k, current_month, lunar_date, has_leap, leap_month_num) ==
    IF current_month < lunar_date.month
         \/ (current_month = lunar_date.month /\ lunar_date.is_leap_month)
    THEN MirrorWalkNoSkip(k + 1, current_month + 1, lunar_date, has_leap,
                          leap_month_num)
    ELSE k

\* the while loop of lines 649-654; returns the final k
RECURSIVE MirrorWalk(_, _, _, _, _)
MirrorWalk(k, current_month, lunar_date, has_leap, leap_month_num) ==
    IF current_month < lunar_date.month
         \/ (current_month = lunar_date.month /\ lunar_date.is_leap_month)
    THEN LET skip == /\ has_leap
                     /\ current_month = leap_month_num
                     /\ (~lunar_date.is_leap_month \/ current_month # lunar_date.month)
         IN  MirrorWalk(k + 1 + (IF skip THEN 1 ELSE 0), current_month + 1,
                        lunar_date, has_leap, leap_month_num)
    ELSE k

\* the new-moon index of the month lunar_to_gregorian computes, lines 638-654
TargetMonthIndex(lunar_date) ==
    LET winter_solstice == find_solar_term(270, YearStart(lunar_date.year))
        k_winter == NewMoonIndex(winter_solstice)
        lunar_new_year == calculate_new_moon(k_winter)
        leap == is_leap_month_year(lunar_date.year)
    IN  MirrorWalk(NewMoonIndex(lunar_new_year), 1, lunar_date, leap[1], leap[2])

lunar_to_gregorian(lunar_date) ==
    LET month_start == calculate_new_moon(TargetMonthIndex(lunar_date))
        target_jd == JDPlusDays(month_start, lunar_date.day - 1)
    IN  julian_to_gregorian(target_jd)

(***************************************************************************)
(* A whole call of gregorian_to_lunar for a year it accepts, lines 568-630.*)
(***************************************************************************)
RECURSIVE WalkToMonth(_)
WalkToMonth(w) == IF MonthFound(w) THEN w ELSE WalkToMonth(WalkAdvance(w))

gregorian_to_lunar(date) == LunarDateOf(date, WalkToMonth(WalkStart(date)))

\* civil timestamps passed to gregorian_to_lunar
SampleDates ==
    { DateTime(1938, 6, 15, 0, 0, 0),
      DateTime(1939, 1, 1, 0, 0, 0),
      DateTime(1939, 12, 31, 23, 59, 59),
      DateTime(1940, 1, 1, 0, 0, 0),
      DateTime(1940, 1, 5, 12, 30, 0),
      DateTime(1940, 2, 8, 6, 0, 0),
      DateTime(1940, 6, 15, 0, 0, 0),
      DateTime(1940, 9, 1, 23, 59, 59),
      DateTime(1940, 12, 20, 6, 0, 0),
      DateTime(1940, 12, 21, 6, 0, 0),
      DateTime(1940, 12, 22, 6, 0, 0),
      DateTime(1940, 12, 23, 6, 0, 0),
      DateTime(1940, 12, 24, 6, 0, 0),
      DateTime(1940, 12, 25, 6, 0, 0),
      DateTime(1940, 12, 26, 6, 0, 0),
      DateTime(1940, 12, 27, 6, 0, 0),
      DateTime(1940, 12, 28, 6, 0, 0),
      DateTime(1940, 12, 29, 6, 0, 0),
      DateTime(1940, 12, 30, 6, 0, 0),
      DateTime(1940, 12, 31, 6, 0, 0),
      DateTime(2023, 1, 1, 0, 0, 0),
      DateTime(2023, 1, 1, 12, 30, 0),
      DateTime(2023, 1, 11, 0, 0, 0),
      DateTime(2023, 1, 11, 12, 30, 0),
      DateTime(2023, 1, 21, 0, 0, 0),
      DateTime(2023, 1, 21, 12, 30, 0),
      DateTime(2023, 2, 1, 0, 0, 0),
      DateTime(2023, 2, 1, 12, 30, 0),
      DateTime(2023, 2, 11, 0, 0, 0),
      DateTime(2023, 2, 11, 12, 30, 0),
      DateTime(2023, 2, 21, 0, 0, 0),
      DateTime(2023, 2, 21, 12, 30, 0),
      DateTime(2023, 3, 1, 0, 0, 0),
      DateTime(2023, 3, 1, 12, 30, 0),
      DateTime(2023, 3, 11, 0, 0, 0),
      DateTime(2023, 3, 11, 12, 30, 0),
      DateTime(2023, 3, 21, 0, 0, 0),
      DateTime(2023, 3, 21, 12, 30, 0),
      DateTime(2023, 4, 1, 0, 0, 0),
      DateTime(2023, 4, 1, 12, 30, 0),
      DateTime(2023, 4, 11, 0, 0, 0),
      DateTime(2023, 4, 11, 12, 30, 0),
      DateTime(2023, 4, 21, 0, 0, 0),
      DateTime(2023, 4, 21, 12, 30, 0),
      DateTime(2023, 5, 1, 0, 0, 0),
      DateTime(2023, 5, 1, 12, 30, 0),
      DateTime(2023, 5, 11, 0, 0, 0),
      DateTime(2023, 5, 11, 12, 30, 0),
      DateTime(2023, 5, 21, 0, 0, 0),
      DateTime(2023, 5, 21, 12, 30, 0),
      DateTime(2023, 6, 1, 0, 0, 0),
      DateTime(2023, 6, 1, 12, 30, 0),
      DateTime(2023, 6, 11, 0, 0, 0),
      DateTime(2023, 6, 11, 12, 30, 0),
      DateTime(2023, 6, 21, 0, 0, 0),
      DateTime(2023, 6, 21, 12, 30, 0),
      DateTime(2023, 7, 1, 0, 0, 0),
      DateTime(2023, 7, 1, 12, 30, 0),
      DateTime(2023, 7, 11, 0, 0, 0),
      DateTime(2023, 7, 11, 12, 30, 0),
      DateTime(2023, 7, 21, 0, 0, 0),
      DateTime(2023, 7, 21, 12, 30, 0),
      DateTime(2023, 8, 1, 0, 0, 0),
      DateTime(2023, 8, 1, 12, 30, 0),
      DateTime(2023, 8, 11, 0, 0, 0),
      DateTime(2023, 8, 11, 12, 30, 0),
      DateTime(2023, 8, 21, 0, 0, 0),
      DateTime(2023, 8, 21, 12, 30, 0),
      DateTime(2023, 9, 1, 0, 0, 0),
      DateTime(2023, 9, 1, 12, 30, 0),
      DateTime(2023, 9, 11, 0, 0, 0),
      DateTime(2023, 9, 11, 12, 30, 0),
      DateTime(2023, 9, 21, 0, 0, 0),
      DateTime(2023, 9, 21, 12, 30, 0),
      DateTime(2023, 10, 1, 0, 0, 0),
      DateTime(2023, 10, 1, 12, 30, 0),
      DateTime(2023, 10, 11, 0, 0, 0),
      DateTime(2023, 10, 11, 12, 30, 0),
      DateTime(2023, 10, 21, 0, 0, 0),
      DateTime(2023, 10, 21, 12, 30, 0),
      DateTime(2023, 11, 1, 0, 0, 0),
      DateTime(2023, 11, 1, 12, 30, 0),
      DateTime(2023, 11, 11, 0, 0, 0),
      DateTime(2023, 11, 11, 12, 30, 0),
      DateTime(2023, 11, 21, 0, 0, 0),
      DateTime(2023, 11, 21, 12, 30, 0),
      DateTime(2023, 12, 1, 0, 0, 0),
      DateTime(2023, 12, 1, 12, 30, 0),
      DateTime(2023, 12, 11, 0, 0, 0),
      DateTime(2023, 12, 11, 12, 30, 0),
      DateTime(2023, 12, 15, 6, 0, 0),
      DateTime(2023, 12, 16, 6, 0, 0),
      DateTime(2023, 12, 17, 6, 0, 0),
      DateTime(2023, 12, 18, 6, 0, 0),
      DateTime(2023, 12, 19, 6, 0, 0),
      DateTime(2023, 12, 20, 6, 0, 0),
      DateTime(2023, 12, 21, 0, 0, 0),
      DateTime(2023, 12, 21, 6, 0, 0),
      DateTime(2023, 12, 21, 12, 30, 0),
      DateTime(2023, 12, 22, 6, 0, 0),
      DateTime(2023, 12, 23, 6, 0, 0),
      DateTime(2023, 12, 24, 6, 0, 0),
      DateTime(2023, 12, 25, 6, 0, 0),
      DateTime(2023, 12, 26, 6, 0, 0),
      DateTime(2023, 12, 27, 6, 0, 0),
      DateTime(2023, 12, 28, 6, 0, 0),
      DateTime(2023, 12, 29, 6, 0, 0),
      DateTime(2023, 12, 30, 6, 0, 0),
      DateTime(2023, 12, 31, 6, 0, 0),
      DateTime(2024, 1, 1, 0, 0, 0),
      DateTime(2024, 1, 1, 0, 0, 1),
      DateTime(2024, 1, 1, 12, 30, 0),
      DateTime(2024, 1, 11, 0, 0, 0),
      DateTime(2024, 1, 11, 11, 59, 5),
      DateTime(2024, 1, 11, 11, 59, 6),
      DateTime(2024, 1, 11, 12, 30, 0),
      DateTime(2024, 1, 21, 0, 0, 0),
      DateTime(2024, 1, 21, 12, 30, 0),
      DateTime(2024, 2, 1, 0, 0, 0),
      DateTime(2024, 2, 1, 12, 30, 0),
      DateTime(2024, 2, 9, 22, 59, 0),
      DateTime(2024, 2, 9, 23, 0, 0),
      DateTime(2024, 2, 9, 23, 0, 56),
      DateTime(2024, 2, 9, 23, 0, 57),
      DateTime(2024, 2, 10, 6, 0, 0),
      DateTime(2024, 2, 11, 0, 0, 0),
      DateTime(2024, 2, 11, 12, 30, 0),
      DateTime(2024, 2, 21, 0, 0, 0),
      DateTime(2024, 2, 21, 12, 30, 0),
      DateTime(2024, 2, 29, 23, 59, 59),
      DateTime(2024, 3, 1, 0, 0, 0),
      DateTime(2024, 3, 1, 12, 30, 0),
      DateTime(2024, 3, 10, 9, 2, 18),
      DateTime(2024, 3, 10, 9, 2, 19),
      DateTime(2024, 3, 11, 0, 0, 0),
      DateTime(2024, 3, 11, 12, 30, 0),
      DateTime(2024, 3, 21, 0, 0, 0),
      DateTime(2024, 3, 21, 12, 30, 0),
      DateTime(2024, 4, 1, 0, 0, 0),
      DateTime(2024, 4, 1, 12, 30, 0),
      DateTime(2024, 4, 8, 18, 22, 47),
      DateTime(2024, 4, 8, 18, 22, 48),
      DateTime(2024, 4, 11, 0, 0, 0),
      DateTime(2024, 4, 11, 12, 30, 0),
      DateTime(2024, 4, 21, 0, 0, 0),
      DateTime(2024, 4, 21, 12, 30, 0),
      DateTime(2024, 5, 1, 0, 0, 0),
      DateTime(2024, 5, 1, 12, 30, 0),
      DateTime(2024, 5, 8, 3, 23, 45),
      DateTime(2024, 5, 8, 3, 23, 46),
      DateTime(2024, 5, 11, 0, 0, 0),
      DateTime(2024, 5, 11, 12, 30, 0),
      DateTime(2024, 5, 21, 0, 0, 0),
      DateTime(2024, 5, 21, 12, 30, 0),
      DateTime(2024, 6, 1, 0, 0, 0),
      DateTime(2024, 6, 1, 12, 30, 0),
      DateTime(2024, 6, 6, 12, 39, 24),
      DateTime(2024, 6, 6, 12, 39, 25),
      DateTime(2024, 6, 11, 0, 0, 0),
      DateTime(2024, 6, 11, 12, 30, 0),
      DateTime(2024, 6, 21, 0, 0, 0),
      DateTime(2024, 6, 21, 12, 30, 0),
      DateTime(2024, 7, 1, 0, 0, 0),
      DateTime(2024, 7, 1, 12, 30, 0),
      DateTime(2024, 7, 5, 22, 59, 0),
      DateTime(2024, 7, 5, 22, 59, 1),
      DateTime(2024, 7, 11, 0, 0, 0),
      DateTime(2024, 7, 11, 12, 30, 0),
      DateTime(2024, 7, 13, 15, 45, 0),
      DateTime(2024, 7, 21, 0, 0, 0),
      DateTime(2024, 7, 21, 12, 30, 0),
      DateTime(2024, 8, 1, 0, 0, 0),
      DateTime(2024, 8, 1, 12, 30, 0),
      DateTime(2024, 8, 4, 11, 14, 37),
      DateTime(2024, 8, 4, 11, 14, 38),
      DateTime(2024, 8, 11, 0, 0, 0),
      DateTime(2024, 8, 11, 12, 30, 0),
      DateTime(2024, 8, 21, 0, 0, 0),
      DateTime(2024, 8, 21, 12, 30, 0),
      DateTime(2024, 9, 1, 0, 0, 0),
      DateTime(2024, 9, 1, 12, 30, 0),
      DateTime(2024, 9, 3, 1, 57, 10),
      DateTime(2024, 9, 3, 1, 57, 11),
      DateTime(2024, 9, 11, 0, 0, 0),
      DateTime(2024, 9, 11, 12, 30, 0),
      DateTime(2024, 9, 21, 0, 0, 0),
      DateTime(2024, 9, 21, 12, 30, 0),
      DateTime(2024, 10, 1, 0, 0, 0),
      DateTime(2024, 10, 1, 12, 30, 0),
      DateTime(2024, 10, 2, 18, 51, 0),
      DateTime(2024, 10, 2, 18, 51, 1),
      DateTime(2024, 10, 11, 0, 0, 0),
      DateTime(2024, 10, 11, 12, 30, 0),
      DateTime(2024, 10, 21, 0, 0, 0),
      DateTime(2024, 10, 21, 12, 30, 0),
      DateTime(2024, 11, 1, 0, 0, 0),
      DateTime(2024, 11, 1, 12, 30, 0),
      DateTime(2024, 11, 1, 12, 48, 56),
      DateTime(2024, 11, 1, 12, 48, 57),
      DateTime(2024, 11, 11, 0, 0, 0),
      DateTime(2024, 11, 11, 12, 30, 0),
      DateTime(2024, 11, 21, 0, 0, 0),
      DateTime(2024, 11, 21, 12, 30, 0),
      DateTime(2024, 12, 1, 0, 0, 0),
      DateTime(2024, 12, 1, 6, 23, 10),
      DateTime(2024, 12, 1, 6, 23, 11),
      DateTime(2024, 12, 1, 12, 30, 0),
      DateTime(2024, 12, 11, 0, 0, 0),
      DateTime(2024, 12, 11, 12, 30, 0),
      DateTime(2024, 12, 15, 6, 0, 0),
      DateTime(2024, 12, 16, 6, 0, 0),
      DateTime(2024, 12, 17, 6, 0, 0),
      DateTime(2024, 12, 18, 6, 0, 0),
      DateTime(2024, 12, 19, 6, 0, 0),
      DateTime(2024, 12, 20, 6, 0, 0),
      DateTime(2024, 12, 21, 0, 0, 0),
      DateTime(2024, 12, 21, 6, 0, 0),
      DateTime(2024, 12, 21, 12, 30, 0),
      DateTime(2024, 12, 22, 6, 0, 0),
      DateTime(2024, 12, 23, 6, 0, 0),
      DateTime(2024, 12, 24, 6, 0, 0),
      DateTime(2024, 12, 25, 6, 0, 0),
      DateTime(2024, 12, 26, 6, 0, 0),
      DateTime(2024, 12, 27, 6, 0, 0),
      DateTime(2024, 12, 28, 6, 0, 0),
      DateTime(2024, 12, 29, 6, 0, 0),
      DateTime(2024, 12, 30, 6, 0, 0),
      DateTime(2024, 12, 30, 22, 28, 33),
      DateTime(2024, 12, 30, 22, 28, 34),
      DateTime(2024, 12, 31, 6, 0, 0),
      DateTime(2621, 1, 14, 0, 0, 0),
      DateTime(2621, 1, 14, 18, 49, 39),
      DateTime(2621, 1, 14, 18, 49, 40),
      DateTime(2621, 1, 14, 18, 49, 41),
      DateTime(2621, 1, 15, 12, 30, 0),
      DateTime(3786, 4, 12, 5, 47, 23),
      DateTime(3786, 4, 12, 5, 47, 24),
      DateTime(3786, 4, 12, 5, 47, 25),
      DateTime(4123, 4, 9, 21, 56, 44),
      DateTime(4123, 4, 9, 21, 56, 45),
      DateTime(4123, 4, 9, 21, 56, 46) }

\* lunar dates passed directly to lunar_to_gregorian
SampleLunarDates ==
    { [year |-> 1938, month |-> 5, day |-> 10, is_leap_month |-> FALSE],
      [year |-> 1939, month |-> 12, day |-> 29, is_leap_month |-> FALSE],
      [year |-> 1940, month |-> 1, day |-> 1, is_leap_month |-> FALSE],
      [year |-> 2023, month |-> 6, day |-> 15, is_leap_month |-> FALSE],
      [year |-> 2024, month |-> 1, day |-> 1, is_leap_month |-> FALSE],
      [year |-> 2024, month |-> 12, day |-> 5, is_leap_month |-> TRUE],
      [year |-> 2024, month |-> 12, day |-> 30, is_leap_month |-> FALSE],
      [year |-> 2024, month |-> 3, day |-> 5, is_leap_month |-> TRUE],
      [year |-> 2621, month |-> 2, day |-> 1, is_leap_month |-> FALSE] }

(***************************************************************************)
(* State.  A caller converts a civil timestamp to a lunar date, converts   *)
(* the lunar date back (as main() does, calendar.py 825 and 853) and       *)
(* converts the result once more; or it passes a lunar date of its own to  *)
(* lunar_to_gregorian.  The locals of gregorian_to_lunar are state while   *)
(* its month walk runs.                                                    *)
(***************************************************************************)
VARIABLES
    pc,             \* the call that runs next, or "done" / "raised"
    input,          \* what the caller passed: "datetime" or "LunarDate"
    round,          \* 1: first conversion, 2: conversion of the date converted back
    date,           \* the civil timestamp of the caller
    target_jd, lunar_year, has_leap, leap_month_num, month, is_leap_month, k,
                    \* locals of gregorian_to_lunar
    labels,         \* the new-moon intervals the running walk has labelled
    lunar,          \* LunarDate returned for date, or passed by the caller
    greg,           \* datetime returned by lunar_to_gregorian / julian_to_gregorian
    lunar2,         \* LunarDate returned for greg
    raised,         \* the function that raised ValueError
    jd,             \* float returned by gregorian_to_julian
    query, answer   \* a direct call of a function and its result

\* the number of new-moon intervals a month walk is followed for
MaxWalk == 14

vars ==
    <<pc, input, round, date, target_jd, lunar_year, has_leap, leap_month_num, month,
      is_leap_month, k, labels, lunar, greg, lunar2, raised, jd, query, answer,
      self, threads, solar_term, chart>>

walkVars == <<target_jd, lunar_year, has_leap, leap_month_num, month, is_leap_month, k>>

Walk ==
    [target_jd |-> target_jd, lunar_year |-> lunar_year, has_leap |-> has_leap,
     leap_month_num |-> leap_month_num, month |-> month,
     is_leap_month |-> is_leap_month, k |-> k]

SetWalk(w) ==
    /\ target_jd' = w.target_jd
    /\ lunar_year' = w.lunar_year
    /\ has_leap' = w.has_leap
    /\ leap_month_num' = w.leap_month_num
    /\ month' = w.month
    /\ is_leap_month' = w.is_leap_month
    /\ k' = w.k

Label(w) ==
    [lunar_year |-> w.lunar_year, month |-> w.month,
     is_leap_month |-> w.is_leap_month, k |-> w.k,
     has_leap |-> w.has_leap, leap_month_num |-> w.leap_month_num]

\* a LunarDate built by a caller: only the four calendar fields are read
CallerLunarDate(l) ==
    [year |-> l.year, month |-> l.month, day |-> l.day,
     is_leap_month |-> l.is_leap_month,
     cycle |-> None, year_in_cycle |-> None,
     year_stem |-> None, year_branch |-> None,
     month_stem |-> None, month_branch |-> None,
     day_stem |-> None, day_branch |-> None,
     hour_stem |-> None, hour_branch |-> None]

NoWalk ==
    /\ target_jd = None
    /\ lunar_year = None
    /\ has_leap = None
    /\ leap_month_num = None
    /\ month = None
    /\ is_leap_month = None
    /\ k = None
    /\ labels = <<>>

NoDirectCall ==
    /\ jd = None
    /\ query = None
    /\ answer = None

\* converter = ChineseLunarCalendar(), line 812; one caller, no threads, no
\* call of find_solar_term in progress, no interactive chart
Constructed ==
    /\ self = ChineseLunarCalendar
    /\ threads = None
    /\ solar_term = None
    /\ chart = None

Init ==
    /\ Constructed
    /\ round = 1
    /\ NoWalk
    /\ NoDirectCall
    /\ greg = None
    /\ lunar2 = None
    /\ raised = None
    /\ \/ /\ pc = "gregorian_to_lunar"
          /\ input = "datetime"
          /\ date \in SampleDates
          /\ lunar = None
       \/ /\ pc = "lunar_to_gregorian"
          /\ input = "LunarDate"
          /\ date = None
          /\ lunar \in {CallerLunarDate(l) : l \in SampleLunarDates}

\* the argument of the running gregorian_to_lunar call
Argument == IF round = 1 THEN date ELSE greg

\* gregorian_to_lunar, lines 565-566
GregorianToLunarRaise ==
    /\ pc = "gregorian_to_lunar"
    /\ GregorianYearRejected(Argument)
    /\ raised' = "gregorian_to_lunar"
    /\ pc' = "raised"
    /\ UNCHANGED <<self, threads, solar_term, chart, input, round, date, walkVars, labels, lunar, greg, lunar2, jd, query, answer>>

\* gregorian_to_lunar, lines 568-592
GregorianToLunarEnter ==
    /\ pc = "gregorian_to_lunar"
    /\ ~GregorianYearRejected(Argument)
    /\ LET w == WalkStart(Argument)
       IN  /\ SetWalk(w)
           /\ labels' = <<Label(w)>>
    /\ pc' = "month_walk"
    /\ UNCHANGED <<self, threads, solar_term, chart, input, round, date, lunar, greg, lunar2, raised, jd, query, answer>>

\* gregorian_to_lunar, lines 594-613, an iteration that does not break; the
\* loop has no bound of its own, the model follows it for MaxWalk intervals
MonthWalkStep ==
    /\ pc = "month_walk"
    /\ ~MonthFound(Walk)
    /\ Len(labels) < MaxWalk
    /\ LET w == WalkIteration(Walk)
       IN  /\ SetWalk(w)
           /\ labels' = Append(labels, Label(w))
    /\ UNCHANGED <<self, threads, solar_term, chart, pc, input, round, date, lunar, greg, lunar2, raised, jd, query, answer>>

\* gregorian_to_lunar, lines 598-601 and 615-630
GregorianToLunarReturn ==
    /\ pc = "month_walk"
    /\ MonthFound(Walk)
    /\ IF round = 1
       THEN /\ lunar' = LunarDateOf(Argument, Walk)
            /\ pc' = "lunar_to_gregorian"
            /\ UNCHANGED lunar2
       ELSE /\ lunar2' = LunarDateOf(Argument, Walk)
            /\ pc' = "done"
            /\ UNCHANGED lunar
    /\ UNCHANGED <<self, threads, solar_term, chart, input, round, date, walkVars, labels, greg, raised, jd, query, answer>>

\* lunar_to_gregorian, lines 634-635
LunarToGregorianRaise ==
    /\ pc = "lunar_to_gregorian"
    /\ LunarYearRejected(lunar)
    /\ raised' = "lunar_to_gregorian"
    /\ pc' = "raised"
    /\ UNCHANGED <<self, threads, solar_term, chart, input, round, date, walkVars, labels, lunar, greg, lunar2, jd, query, answer>>

\* lunar_to_gregorian, lines 637-659; the caller converts the result again
LunarToGregorianReturn ==
    /\ pc = "lunar_to_gregorian"
    /\ ~LunarYearRejected(lunar)
    /\ greg' = lunar_to_gregorian(lunar)
    /\ round' = 2
    /\ pc' = "gregorian_to_lunar"
    /\ UNCHANGED <<self, threads, solar_term, chart, input, date, walkVars, labels, lunar, lunar2, raised, jd, query, answer>>

Next ==
    \/ GregorianToLunarRaise
    \/ GregorianToLunarEnter
    \/ MonthWalkStep
    \/ GregorianToLunarReturn
    \/ LunarToGregorianRaise
    \/ LunarToGregorianReturn

Spec == Init /\ [][Next]_vars

(***************************************************************************)
(* Termination of the month walk.  The caller passes a civil timestamp.    *)
(* A local that has not been assigned yet holds a value of its type that   *)
(* no step reads, so that states can be compared variable by variable.     *)
(***************************************************************************)
UnsetDate == DateTime(0, 0, 0, 0, 0, 0)

UnsetLunarDate ==
    [CallerLunarDate([year |-> 0, month |-> 0, day |-> 0, is_leap_month |-> FALSE])
        EXCEPT !.cycle = 0, !.year_in_cycle = 0]

InitLive ==
    /\ Constructed
    /\ round = 1
    /\ NoDirectCall
    /\ pc = "gregorian_to_lunar"
    /\ input = "datetime"
    /\ date \in SampleDates
    /\ target_jd = JD(0, 0)
    /\ lunar_year = 0
    /\ has_leap = FALSE
    /\ leap_month_num = 0
    /\ month = 0
    /\ is_leap_month = FALSE
    /\ k = 0
    /\ labels = <<>>
    /\ lunar = UnsetLunarDate
    /\ greg = UnsetDate
    /\ lunar2 = UnsetLunarDate
    /\ raised = None

\* the interpreter keeps executing the while loop of a call that has
\* entered it: an iteration that can be taken is taken
SpecLive ==
    /\ InitLive
    /\ [][Next]_vars
    /\ WF_vars(MonthWalkStep)
    /\ WF_vars(GregorianToLunarReturn)
(***************************************************************************)
(* Direct calls of the Julian Day converter: gregorian_to_julian followed  *)
(* by julian_to_gregorian on its result.                                   *)
(***************************************************************************)
CivilYears == {1940, 2024}

DaysInMonth(y, mo) ==
    IF mo = 2
    THEN (IF (y % 4 = 0 /\ y % 100 # 0) \/ y % 400 = 0 THEN 29 ELSE 28)
    ELSE IF mo \in {4, 6, 9, 11} THEN 30 ELSE 31

\* first and last day of every month, in the first and last minute of the
\* first and last hour and of the hour after noon, every second
CivilSamples ==
    {t \in [year : CivilYears, month : 1..12, day : {1, 28, 29, 30, 31},
            hour : {0, 12, 23}, minute : {0, 59}, second : 0..59] :
        t.day \in {1, DaysInMonth(t.year, t.month)}}

InitJD ==
    /\ Constructed
    /\ pc = "gregorian_to_julian"
    /\ input = "datetime"
    /\ round = 1
    /\ date \in CivilSamples
    /\ NoWalk
    /\ lunar = None
    /\ greg = None
    /\ lunar2 = None
    /\ raised = None
    /\ NoDirectCall

\* jd = gregorian_to_julian(date)
GregorianToJulian ==
    /\ pc = "gregorian_to_julian"
    /\ jd' = gregorian_to_julian(date)
    /\ pc' = "julian_to_gregorian"
    /\ UNCHANGED <<self, threads, solar_term, chart, input, round, date, walkVars, labels, lunar, greg, lunar2, raised,
                   query, answer>>

\* greg = julian_to_gregorian(jd)
JulianToGregorian ==
    /\ pc = "julian_to_gregorian"
    /\ greg' = julian_to_gregorian(jd)
    /\ pc' = "converted"
    /\ UNCHANGED <<self, threads, solar_term, chart, input, round, date, walkVars, labels, lunar, lunar2, raised, jd,
                   query, answer>>

NextJD == GregorianToJulian \/ JulianToGregorian

SpecJD == InitJD /\ [][NextJD]_vars

(***************************************************************************)
(* Direct calls of the pillar functions and of the hour-branch lookup.     *)
(***************************************************************************)
MaxNumber == 130
MinPillarYear == 1800
MaxPillarYear == 2100
MaxDays == 130

\* gregorian_to_julian(datetime(1900, 1, 1)) plus d whole days, at midnight,
\* at noon and one float step before the next midnight
DayArguments ==
    {JD(gregorian_to_julian(DateTime(1900, 1, 1, 0, 0, 0)).day + d, f) :
        d \in 0..MaxDays, f \in {0, 1073741824, 2147483647}}

\* one year for each of the ten year stems
MonthPillarYears == 2020..2029

\* years with 13 and with 12 new moons between their winter solstices
ResolverYears == {1940, 1941, 2023, 2024, 2025, 2621, 3786, 4123}

\* every hour of the days of two months, a leap day among them
PillarTimes ==
    {t \in [year : {2024}, month : {2, 3}, day : 1..31, hour : 0..23, minute : {0, 59},
            second : {0, 59}] :
        /\ t.day <= DaysInMonth(t.year, t.month)
        /\ t.minute = t.second}

\* has_major_term of the twelve iterations of the scan of is_leap_month_year
MajorTermOutcomes == [1..12 -> BOOLEAN]

Queries ==
    {[fn |-> "get_stem_branch_pair", arg |-> n] : n \in (0 - MaxNumber)..MaxNumber}
    \cup {[fn |-> "get_year_stem_branch", arg |-> y] : y \in MinPillarYear..MaxPillarYear}
    \cup {[fn |-> "get_by_hour", arg |-> h] : h \in 0..23}
    \cup {[fn |-> "get_day_stem_branch", arg |-> j] : j \in DayArguments}
    \cup {[fn |-> "HeavenlyStems.get_by_index", arg |-> i] :
              i \in (0 - MaxNumber)..MaxNumber}
    \cup {[fn |-> "EarthlyBranches.get_by_index", arg |-> i] :
              i \in (0 - MaxNumber)..MaxNumber}
    \cup {[fn |-> "get_month_stem_branch",
            arg |-> [lunar_year |-> y, lunar_month |-> m, is_leap |-> l]] :
              y \in MonthPillarYears, m \in 1..12, l \in BOOLEAN}
    \cup {[fn |-> "is_leap_month_year", arg |-> y] : y \in ResolverYears}
    \cup {[fn |-> "get_hour_stem_branch",
            arg |-> [date |-> DateTime(2024, 2, 10, h, 0, 0), day_stem |-> stems[d + 1]]] :
              h \in 0..23, d \in 0..9}
    \cup {[fn |-> "day and hour pillar", arg |-> t] : t \in PillarTimes}
    \cup {[fn |-> "is_leap_month_year.for", arg |-> h] : h \in MajorTermOutcomes}

InitPillar ==
    /\ Constructed
    /\ pc = "call"
    /\ input = None
    /\ round = 1
    /\ date = None
    /\ NoWalk
    /\ lunar = None
    /\ greg = None
    /\ lunar2 = None
    /\ raised = None
    /\ jd = None
    /\ query \in Queries
    /\ answer = None

Return(result) ==
    /\ answer' = result
    /\ pc' = "returned"
    /\ UNCHANGED <<self, threads, solar_term, chart, input, round, date, walkVars, labels, lunar, greg, lunar2, raised,
                   jd, query>>

CallGetStemBranchPair ==
    /\ pc = "call"
    /\ query.fn = "get_stem_branch_pair"
    /\ Return(get_stem_branch_pair(query.arg))

CallGetYearStemBranch ==
    /\ pc = "call"
    /\ query.fn = "get_year_stem_branch"
    /\ Return(get_year_stem_branch(query.arg))

CallGetByHour ==
    /\ pc = "call"
    /\ query.fn = "get_by_hour"
    /\ Return(get_by_hour(query.arg))

CallGetDayStemBranch ==
    /\ pc = "call"
    /\ query.fn = "get_day_stem_branch"
    /\ Return(get_day_stem_branch(query.arg))

CallStemsGetByIndex ==
    /\ pc = "call"
    /\ query.fn = "HeavenlyStems.get_by_index"
    /\ Return(StemByIndex(query.arg))

CallBranchesGetByIndex ==
    /\ pc = "call"
    /\ query.fn = "EarthlyBranches.get_by_index"
    /\ Return(BranchByIndex(query.arg))

CallGetMonthStemBranch ==
    /\ pc = "call"
    /\ query.fn = "get_month_stem_branch"
    /\ Return(get_month_stem_branch(query.arg.lunar_year, query.arg.lunar_month,
                                    query.arg.is_leap))

CallGetHourStemBranch ==
    /\ pc = "call"
    /\ query.fn = "get_hour_stem_branch"
    /\ Return(get_hour_stem_branch(query.arg.date, query.arg.day_stem))

\* the day and hour pillar of gregorian_to_lunar(query.arg): lines 571 and
\* 625-626, which do not depend on the month walk
CallDayAndHourPillar ==
    /\ pc = "call"
    /\ query.fn = "day and hour pillar"
    /\ LET target == gregorian_to_julian(query.arg)
           day_pillar == get_day_stem_branch(target)
           hour_pillar == get_hour_stem_branch(query.arg, day_pillar[1])
       IN  Return(<<day_pillar, hour_pillar>>)

CallIsLeapMonthYear ==
    /\ pc = "call"
    /\ query.fn = "is_leap_month_year"
    /\ Return(is_leap_month_year(query.arg))

\* lines 440-456 of a call of is_leap_month_year that counted 13 new moons,
\* the ephemeris left open: query.arg[m] is what lines 446-451 compute for
\* month m
ScanMonths ==
    /\ pc = "call"
    /\ query.fn = "is_leap_month_year.for"
    /\ Return(LeapScan(1, query.arg))

NextPillar ==
    \/ CallGetStemBranchPair
    \/ CallGetYearStemBranch
    \/ CallGetByHour
    \/ CallGetDayStemBranch
    \/ CallStemsGetByIndex
    \/ CallBranchesGetByIndex
    \/ CallGetMonthStemBranch
    \/ CallGetHourStemBranch
    \/ CallDayAndHourPillar
    \/ CallIsLeapMonthYear
    \/ ScanMonths

SpecPillar == InitPillar /\ [][NextPillar]_vars


(***************************************************************************)
(* The two month walks on their own.  The ephemeris is left open: the      *)
(* New Year index, what is_leap_month_year returns for a year and whether  *)
(* the interval reached contains the target are chosen by the environment  *)
(* among the values the statements of the program can produce.  After the  *)
(* forward walk of gregorian_to_lunar has stopped at an interval of the    *)
(* first lunar year, the loop of lunar_to_gregorian is run for the label   *)
(* of that interval, from the same New Year index and resolver result.     *)
(***************************************************************************)
MaxAbstractWalk == 27

\* the return statements of is_leap_month_year, lines 454 and 456
ResolverResults == {<<TRUE, m>> : m \in 1..12}

NewYearIndices == {297, 309}

InitWalk ==
    /\ Constructed
    /\ pc = "walk"
    /\ input = "datetime"
    /\ round = 1
    /\ date = None
    /\ target_jd = None
    /\ lunar_year = 2024
    /\ \E leap \in ResolverResults :
           /\ has_leap = leap[1]
           /\ leap_month_num = leap[2]
           /\ query = [fn |-> "is_leap_month_year", arg |-> 2024]
           /\ answer = leap
    /\ month = 1
    /\ is_leap_month = FALSE
    /\ k \in NewYearIndices
    /\ labels = <<Label(Walk)>>
    /\ lunar = None
    /\ greg = None
    /\ lunar2 = None
    /\ raised = None
    /\ jd = None

\* lines 603-613: the interval does not contain the target
WalkForward ==
    /\ pc = "walk"
    /\ Len(labels) < MaxAbstractWalk
    /\ \E next_leap \in ResolverResults :
           LET w == WalkAdvanceWith(Walk, next_leap)
           IN  /\ SetWalk(w)
               /\ labels' = Append(labels, Label(w))
               /\ IF w.lunar_year # lunar_year
                  THEN /\ query' = [fn |-> "is_leap_month_year", arg |-> w.lunar_year]
                       /\ answer' = next_leap
                  ELSE UNCHANGED <<query, answer>>
    /\ UNCHANGED <<self, threads, solar_term, chart, pc, input, round, date, lunar, greg, lunar2, raised, jd>>

\* lines 598-601: the interval contains the target
WalkBreak ==
    /\ pc = "walk"
    /\ pc' = "found"
    /\ UNCHANGED <<self, threads, solar_term, chart, input, round, date, walkVars, labels, lunar, greg, lunar2,
                   raised, jd, query, answer>>

\* lines 645-654 for the label the forward walk stopped at: answer is the
\* index k the loop ends with
MirrorWalkCall ==
    /\ pc = "found"
    /\ lunar_year = labels[1].lunar_year
    /\ lunar' = CallerLunarDate([year |-> lunar_year, month |-> month, day |-> 1,
                                 is_leap_month |-> is_leap_month])
    /\ query' = [fn |-> "lunar_to_gregorian", arg |-> labels[1].k]
    /\ answer' = MirrorWalk(labels[1].k, 1, lunar', has_leap, leap_month_num)
    /\ pc' = "mirrored"
    /\ UNCHANGED <<self, threads, solar_term, chart, input, round, date, walkVars, labels, greg, lunar2, raised, jd>>

NextWalk == WalkForward \/ WalkBreak \/ MirrorWalkCall

SpecWalk == InitWalk /\ [][NextWalk]_vars

(***************************************************************************)
(* Concurrent calls.  Threads call methods of the one instance; a call of  *)
(* gregorian_to_lunar can be preempted between the iterations of its month *)
(* walk, whose locals belong to the thread.  A thread repeats its call, so *)
(* that the results of two calls with the same input can be compared.      *)
(***************************************************************************)
Threads == {1, 2}

MaxCalls == 2

ConcurrentCalls ==
    {[fn |-> "gregorian_to_lunar", arg |-> d] :
        d \in {DateTime(2024, 1, 1, 12, 30, 0), DateTime(2024, 2, 10, 6, 0, 0),
               DateTime(2024, 7, 13, 15, 45, 0)}}
    \cup {[fn |-> "lunar_to_gregorian", arg |-> CallerLunarDate(l)] :
              l \in {[year |-> 2024, month |-> 1, day |-> 1, is_leap_month |-> FALSE],
                     [year |-> 2024, month |-> 12, day |-> 5, is_leap_month |-> TRUE]}}
    \cup {[fn |-> "is_leap_month_year", arg |-> y] : y \in {2023, 2024}}
    \cup {[fn |-> "find_solar_term",
            arg |-> [longitude |-> 270,
                     start_jd |-> YearStart(2024)]]}

\* faulty variant: lunar_to_gregorian keeps the start of the year it was
\* asked for in self.base_julian
InstanceAfterKeepingYearStart(fn, arg) ==
    IF fn = "lunar_to_gregorian"
    THEN [self EXCEPT !.base_julian = YearStart(arg.year)]
    ELSE self

\* the instance after a step of method fn: no statement of lines 280-659
\* assigns to an attribute of self or changes one of its tables
InstanceAfter(fn, arg) == self

InitConcurrent ==
    /\ self = ChineseLunarCalendar
    /\ solar_term = None
    /\ chart = None
    /\ threads \in [Threads -> {[pc |-> "call", call |-> c, walk |-> <<>>, result |-> <<>>,
                                  first |-> <<>>, calls |-> 1] : c \in ConcurrentCalls}]
    /\ pc = "threads"
    /\ input = None
    /\ round = 1
    /\ date = None
    /\ NoWalk
    /\ lunar = None
    /\ greg = None
    /\ lunar2 = None
    /\ raised = None
    /\ NoDirectCall

ThreadStep(t, fn, next) ==
    /\ threads[t].call.fn = fn
    /\ threads' = [threads EXCEPT ![t] = next]
    /\ self' = InstanceAfter(fn, threads[t].call.arg)
    /\ UNCHANGED <<solar_term, chart, pc, input, round, date, walkVars, labels, lunar,
                   greg, lunar2, raised, jd, query, answer>>

ThreadReturn(t, fn, result) ==
    ThreadStep(t, fn, [threads[t] EXCEPT !.pc = "returned", !.result = <<result>>])

\* gregorian_to_lunar, lines 565-592
ThreadGregorianToLunarEnter(t) ==
    /\ threads[t].pc = "call"
    /\ threads[t].call.fn = "gregorian_to_lunar"
    /\ ~GregorianYearRejected(threads[t].call.arg)
    /\ ThreadStep(t, "gregorian_to_lunar",
                  [threads[t] EXCEPT !.pc = "month_walk",
                                     !.walk = <<WalkStart(threads[t].call.arg)>>])

\* gregorian_to_lunar, lines 594-613, an iteration that does not break
ThreadMonthWalkStep(t) ==
    /\ threads[t].pc = "month_walk"
    /\ ~MonthFound(threads[t].walk[1])
    /\ ThreadStep(t, "gregorian_to_lunar",
                  [threads[t] EXCEPT !.walk = <<WalkIteration(threads[t].walk[1])>>])

\* gregorian_to_lunar, lines 598-601 and 615-630
ThreadGregorianToLunarReturn(t) ==
    /\ threads[t].pc = "month_walk"
    /\ MonthFound(threads[t].walk[1])
    /\ ThreadReturn(t, "gregorian_to_lunar",
                    LunarDateOf(threads[t].call.arg, threads[t].walk[1]))

ThreadLunarToGregorian(t) ==
    /\ threads[t].pc = "call"
    /\ threads[t].call.fn = "lunar_to_gregorian"
    /\ ~LunarYearRejected(threads[t].call.arg)
    /\ ThreadReturn(t, "lunar_to_gregorian", lunar_to_gregorian(threads[t].call.arg))

ThreadIsLeapMonthYear(t) ==
    /\ threads[t].pc = "call"
    /\ threads[t].call.fn = "is_leap_month_year"
    /\ ThreadReturn(t, "is_leap_month_year", is_leap_month_year(threads[t].call.arg))

ThreadFindSolarTerm(t) ==
    /\ threads[t].pc = "call"
    /\ threads[t].call.fn = "find_solar_term"
    /\ ThreadReturn(t, "find_solar_term",
                    find_solar_term(threads[t].call.arg.longitude,
                                    threads[t].call.arg.start_jd))

\* the thread calls the method again with the same input
ThreadCallAgain(t) ==
    /\ threads[t].pc = "returned"
    /\ threads[t].calls < MaxCalls
    /\ threads' = [threads EXCEPT ![t] = [@ EXCEPT !.pc = "call", !.walk = <<>>,
                                                   !.first = threads[t].result, !.result = <<>>,
                                                   !.calls = @ + 1]]
    /\ UNCHANGED <<self, solar_term, chart, pc, input, round, date, walkVars, labels, lunar, greg, lunar2,
                   raised, jd, query, answer>>

NextConcurrent ==
    \E t \in Threads :
        \/ ThreadGregorianToLunarEnter(t)
        \/ ThreadMonthWalkStep(t)
        \/ ThreadGregorianToLunarReturn(t)
        \/ ThreadLunarToGregorian(t)
        \/ ThreadIsLeapMonthYear(t)
        \/ ThreadFindSolarTerm(t)
        \/ ThreadCallAgain(t)

SpecConcurrent == InitConcurrent /\ [][NextConcurrent]_vars
(***************************************************************************)
(* Properties.                                                             *)
(***************************************************************************)
\* lunar holds the LunarDate that gregorian_to_lunar returned for date
FirstReturned ==
    /\ input = "datetime"
    /\ (pc = "lunar_to_gregorian" \/ round = 2 \/ raised = "lunar_to_gregorian")

\* the month walk has just broken out of its loop: the locals are final
JustReturned ==
    \/ (pc = "lunar_to_gregorian" /\ input = "datetime")
    \/ pc = "done"

\* the LunarDate the walk that has just returned produced
JustReturnedLunar == IF pc = "done" THEN lunar2 ELSE lunar

CalendarFields(l) == <<l.year, l.month, l.day, l.is_leap_month>>

SameParity(stem, branch) == StemIndex(stem) % 2 = BranchIndex(branch) % 2

PillarsSameParity(l) ==
    /\ SameParity(l.year_stem, l.year_branch)
    /\ SameParity(l.month_stem, l.month_branch)
    /\ SameParity(l.day_stem, l.day_branch)
    /\ SameParity(l.hour_stem, l.hour_branch)

\* C1: for every civil timestamp x with year >= 1940,
\* julian_to_gregorian(gregorian_to_julian(x)) returns exactly x, all six
\* fields equal.
C1_JulianRoundTrip ==
    (pc = "converted" /\ date.year >= 1940) => greg = date

\* C2: for every civil timestamp t with year >= 1940,
\* lunar_to_gregorian(gregorian_to_lunar(t)) returns a timestamp on the same
\* civil date (year, month, day) as t.
C2_LunarRoundTripSameDate ==
    (input = "datetime" /\ date.year >= 1940) =>
        /\ raised # "lunar_to_gregorian"
        /\ (round = 2 =>
                <<greg.year, greg.month, greg.day>> = <<date.year, date.month, date.day>>)

\* C3: for every LunarDate d with year >= 1940 that gregorian_to_lunar can
\* produce, gregorian_to_lunar(lunar_to_gregorian(d)) yields the same lunar
\* year, month, day and leap-month flag as d.
C3_LunarDateRoundTrip ==
    (input = "datetime" /\ round = 2 /\ pc \in {"done", "raised"}) =>
        /\ pc = "done"
        /\ CalendarFields(lunar2) = CalendarFields(lunar)

\* C4: gregorian_to_lunar raises for every civil timestamp with year < 1940
\* and lunar_to_gregorian for every LunarDate with year < 1940, before
\* anything is computed and without returning a result; for a year >= 1940
\* neither raises.
C4_RangeErrors ==
    /\ (raised = "gregorian_to_lunar" =>
            /\ pc = "raised"
            /\ Argument.year < 1940
            /\ (round = 1 => labels = <<>>))
    /\ (pc = "month_walk" => Argument.year >= 1940)
    /\ (raised = "lunar_to_gregorian" =>
            /\ pc = "raised"
            /\ lunar.year < 1940
            /\ round = 1)
    /\ (round = 2 => lunar.year >= 1940)
    /\ (pc = "done" => Argument.year >= 1940 /\ lunar.year >= 1940)

C4_Witness ==
    /\ raised = "gregorian_to_lunar"
    /\ round = 1
    /\ date.year = 1939

\* C5: sexagenary parity: in every LunarDate returned by gregorian_to_lunar
\* each of the four pillars (the month pillar of a leap month included) has
\* stem index mod 2 equal to branch index mod 2, and so has
\* get_stem_branch_pair(n) for every integer n.
C5_SexagenaryParity ==
    /\ (FirstReturned => PillarsSameParity(lunar))
    /\ (pc = "done" => PillarsSameParity(lunar2))
    /\ \A n \in (0 - MaxNumber)..MaxNumber :
           SameParity(get_stem_branch_pair(n)[1], get_stem_branch_pair(n)[2])

C5_Witness ==
    /\ input = "datetime"
    /\ pc = "lunar_to_gregorian"
    /\ lunar.is_leap_month
    /\ PillarsSameParity(lunar)

\* C6: year pillar cycle closure: get_year_stem_branch(Y) equals
\* get_year_stem_branch(Y + 60) and is the pair number
\* n = ((Y - 1864) mod 60) + 1, stem index (n - 1) mod 10 and branch index
\* (n - 1) mod 12; 1864 gives stem 0 and branch 0.
C6_YearPillarCycle ==
    (pc = "returned" /\ query.fn = "get_year_stem_branch") =>
        LET n == ((query.arg - 1864) % 60) + 1
        IN  /\ answer = get_year_stem_branch(query.arg + 60)
            /\ StemIndex(answer[1]) = (n - 1) % 10
            /\ BranchIndex(answer[2]) = (n - 1) % 12
            /\ (query.arg = 1864 => answer = <<"jia3", "zi3">>)

C6_Witness ==
    /\ pc = "returned"
    /\ query.fn = "get_year_stem_branch"
    /\ query.arg = 1924
    /\ answer = <<"jia3", "zi3">>

\* C7: hour-branch totality: for every hour h in 0..23 exactly one branch
\* reports is_active_time(h), get_by_hour(h) returns it and never None, it
\* is the branch with index ((h + 1) div 2) mod 12, and hours 23 and 0 both
\* give the midnight branch (index 0).
C7_HourBranchTotal ==
    (pc = "returned" /\ query.fn = "get_by_hour") =>
        LET h == query.arg
        IN  /\ Cardinality({b \in 0..11 : is_active_time(b, h)}) = 1
            /\ answer # None
            /\ answer \in {branches[b + 1] : b \in {c \in 0..11 : is_active_time(c, h)}}
            /\ answer = branches[(((h + 1) \div 2) % 12) + 1]
            /\ (h \in {0, 23} => answer = branches[1])

C7_Witness ==
    /\ pc = "returned"
    /\ query.fn = "get_by_hour"
    /\ query.arg = 23
    /\ answer = "zi3"

\* C8: leap-month exclusivity: among the new-moon intervals one month walk
\* of gregorian_to_lunar labels with the same lunar year at most one carries
\* is_leap_month = TRUE, and it directly follows the non-leap interval with
\* the same month ordinal.
C8_LeapMonthExclusive ==
    \A i \in 1..Len(labels) :
        labels[i].is_leap_month =>
            /\ \A j \in 1..Len(labels) :
                   (labels[j].is_leap_month
                      /\ labels[j].lunar_year = labels[i].lunar_year) => j = i
            /\ i > 1
            /\ labels[i - 1].lunar_year = labels[i].lunar_year
            /\ labels[i - 1].month = labels[i].month
            /\ ~labels[i - 1].is_leap_month
            /\ labels[i - 1].k = labels[i].k - 1

C8_Witness ==
    /\ pc = "month_walk"
    /\ Len(labels) > 1
    /\ labels[Len(labels)].is_leap_month
    /\ ~labels[Len(labels) - 1].is_leap_month

\* C9: half-open month boundary: a timestamp whose Julian Day equals a
\* new-moon Julian Day NM(k) is assigned to the month whose interval starts
\* at NM(k), with day 1, never to the month that ends at NM(k).
C9_HalfOpenBoundary ==
    JustReturned =>
        \A kk \in DOMAIN NewMoonFunction :
            target_jd = calculate_new_moon(kk) =>
                /\ k = kk
                /\ JustReturnedLunar.day = 1

C9_Witness ==
    /\ JustReturned
    /\ \E kk \in DOMAIN NewMoonFunction : target_jd = calculate_new_moon(kk)
    /\ JustReturnedLunar.day = 1

\* C10: day pillar anchor: get_day_stem_branch of civil 1900-01-01 00:00:00
\* is cycle number 11 (stem index 0, branch index 10); d whole days after
\* that reference the cycle number is ((11 + d - 1) mod 60) + 1, in 1..60.
C10_DayPillarAnchor ==
    (pc = "returned" /\ query.fn = "get_day_stem_branch") =>
        LET ref_jd == gregorian_to_julian(DateTime(1900, 1, 1, 0, 0, 0))
            d == query.arg.day - ref_jd.day
            n == ((11 + d - 1) % 60) + 1
        IN  /\ DayNumber(query.arg) = n
            /\ n \in 1..60
            /\ StemIndex(answer[1]) = (n - 1) % 10
            /\ BranchIndex(answer[2]) = (n - 1) % 12
            /\ (query.arg = ref_jd =>
                    /\ n = 11
                    /\ StemIndex(answer[1]) = 0
                    /\ BranchIndex(answer[2]) = 10)

C10_Witness ==
    /\ pc = "returned"
    /\ query.fn = "get_day_stem_branch"
    /\ query.arg = gregorian_to_julian(DateTime(1900, 1, 1, 0, 0, 0))
    /\ answer = <<"jia3", "xu1">>


\* C11: gregorian_to_lunar(2024-02-10 06:00) returns lunar year 2024,
\* month 1, day 1, not a leap month.
C11_ChineseNewYear2024 ==
    (FirstReturned /\ date = DateTime(2024, 2, 10, 6, 0, 0)) =>
        CalendarFields(lunar) = <<2024, 1, 1, FALSE>>

\* C12: HeavenlyStems.get_by_index(i) and EarthlyBranches.get_by_index(i)
\* return, for every integer i, negative or beyond the table size, the
\* table entry at i mod 10 respectively i mod 12, and never None.
C12_IndexLookupTotal ==
    /\ (pc = "returned" /\ query.fn = "HeavenlyStems.get_by_index") =>
           /\ answer # None
           /\ \E r \in 0..9 :
                  /\ \E q \in (0 - MaxNumber)..MaxNumber : query.arg = 10 * q + r
                  /\ answer = stems[r + 1]
    /\ (pc = "returned" /\ query.fn = "EarthlyBranches.get_by_index") =>
           /\ answer # None
           /\ \E r \in 0..11 :
                  /\ \E q \in (0 - MaxNumber)..MaxNumber : query.arg = 12 * q + r
                  /\ answer = branches[r + 1]

C12_Witness ==
    /\ pc = "returned"
    /\ query.fn = "HeavenlyStems.get_by_index"
    /\ query.arg = 0 - 1
    /\ answer = "gui3"

\* C13: for every civil timestamp with year >= 1940 gregorian_to_lunar
\* terminates and returns a LunarDate without raising: its month walk
\* reaches a new-moon interval that contains the target after finitely many
\* steps.
C13_WalkTerminates ==
    (pc = "month_walk" /\ Argument.year >= 1940)
        ~> (JustReturned /\ MonthFound(Walk))

C13_Witness ==
    /\ pc = "lunar_to_gregorian"
    /\ input = "datetime"
    /\ date.year >= 1940
    /\ Len(labels) = 13
    /\ MonthFound(Walk)

\* C15: is_leap_month_year(Y) reports a leap month if and only if the
\* number of new moons between the two winter solstices of Y is exactly 13.
C15_LeapIffThirteenNewMoons ==
    pc = "month_walk" => (has_leap <=> NewMoonCount(lunar_year) = 13)

\* C16: get_month_stem_branch(Y, m, is_leap = TRUE) returns the same stem
\* and branch as get_month_stem_branch(Y, m, is_leap = FALSE), for every
\* lunar year Y and month ordinal m in 1..12.
C16_LeapMonthPillar ==
    (pc = "returned" /\ query.fn = "get_month_stem_branch" /\ query.arg.is_leap) =>
        answer = get_month_stem_branch(query.arg.lunar_year, query.arg.lunar_month, FALSE)

\* a major solar term (longitude a multiple of 30 degrees), located by
\* find_solar_term started at month_start, falls in [month_start, month_end)
ContainsMajorTerm(month_start, month_end) ==
    \E t \in 0..11 :
        /\ JDLeq(month_start, find_solar_term(30 * t, month_start))
        /\ JDLess(find_solar_term(30 * t, month_start), month_end)

\* C17: when the new-moon count is 13, is_leap_month_year returns the
\* smallest m in 1..12 whose interval [NM(k_start + m), NM(k_start + m + 1))
\* contains none of the twelve major solar terms, and month 12 if every
\* month 1..12 contains one.
C17_LeapMonthSelection ==
    /\ (pc = "returned" /\ query.fn = "is_leap_month_year"
            /\ NewMoonCount(query.arg) = 13) =>
           LET k_start == NewMoonIndex(find_solar_term(270, YearStart(query.arg)))
               Contains(m) == ContainsMajorTerm(calculate_new_moon(k_start + m),
                                                calculate_new_moon(k_start + m + 1))
           IN  /\ answer[1]
               /\ answer[2] \in 1..12
               /\ \A m \in 1..(answer[2] - 1) : Contains(m)
               /\ (Contains(answer[2]) => answer[2] = 12)
    /\ (pc = "returned" /\ query.fn = "is_leap_month_year.for") =>
           /\ answer[1]
           /\ answer[2] \in 1..12
           /\ \A m \in 1..(answer[2] - 1) : query.arg[m]
           /\ (query.arg[answer[2]] => answer[2] = 12)

C17_Witness ==
    /\ pc = "returned"
    /\ query.fn = "is_leap_month_year.for"
    /\ answer = <<TRUE, 5>>
    /\ ~query.arg[9]

\* C20: the winter solstice gregorian_to_lunar locates for the target
\* (find_solar_term for longitude 270 started 180 days before the target)
\* is never later than the target.
C20_SolsticeNotAfterTarget ==
    pc = "month_walk" =>
        JDLeq(find_solar_term(270, JDPlusDays(target_jd, 0 - 180)), target_jd)

\* the labels of two successive intervals of a month walk
Successive(a, b) ==
    /\ b.k = a.k + 1
    /\ IF a.has_leap /\ a.month = a.leap_month_num /\ ~a.is_leap_month
       THEN /\ b.month = a.month
            /\ b.is_leap_month
            /\ b.lunar_year = a.lunar_year
       ELSE /\ ~b.is_leap_month
            /\ IF a.month < 12
               THEN b.month = a.month + 1 /\ b.lunar_year = a.lunar_year
               ELSE b.month = 1 /\ b.lunar_year = a.lunar_year + 1
    /\ (b.lunar_year = a.lunar_year =>
            b.has_leap = a.has_leap /\ b.leap_month_num = a.leap_month_num)

\* C18: the forward month walk starts at New Year with month 1; each step
\* to the next new-moon interval increments the ordinal by one, except that
\* the ordinal L is repeated exactly once, with the leap flag set, when the
\* resolver reported leap month L for the current lunar year; when the
\* ordinal would exceed 12 the walk resets to month 1, increments the lunar
\* year and uses the leap result recomputed for the new year.
C18_ForwardWalkLabels ==
    pc \in {"walk", "found"} =>
        /\ labels[1].month = 1
        /\ ~labels[1].is_leap_month
        /\ \A i \in 1..(Len(labels) - 1) : Successive(labels[i], labels[i + 1])
        /\ query = [fn |-> "is_leap_month_year", arg |-> lunar_year]
        /\ answer = <<has_leap, leap_month_num>>

C18_Witness ==
    /\ pc = "walk"
    /\ lunar_year = labels[1].lunar_year + 1
    /\ is_leap_month
    /\ leap_month_num # labels[1].leap_month_num

\* C19: given the same New Year index and the same resolver result
\* (has_leap, L), the new-moon index lunar_to_gregorian reaches for a label
\* (m, leap) equals the index of the interval the forward walk of
\* gregorian_to_lunar labels (m, leap).
C19_MirrorWalkAgrees ==
    pc = "mirrored" => answer = k

C19_Witness ==
    /\ pc = "mirrored"
    /\ month > leap_month_num
    /\ answer = labels[1].k + month

\* what a call returns when it runs alone on the instance
ResultAlone(call) ==
    CASE call.fn = "gregorian_to_lunar" -> gregorian_to_lunar(call.arg)
      [] call.fn = "lunar_to_gregorian" -> lunar_to_gregorian(call.arg)
      [] call.fn = "is_leap_month_year" -> is_leap_month_year(call.arg)
      [] call.fn = "find_solar_term" ->
             find_solar_term(call.arg.longitude, call.arg.start_jd)

\* C14: no conversion (gregorian_to_lunar, lunar_to_gregorian,
\* is_leap_month_year, find_solar_term) writes a field of the shared
\* instance or its stem and branch tables; under every interleaving of
\* concurrent calls each call returns what it returns when run alone, and a
\* repeated call with the same input returns an equal result.
C14_ConcurrentCallsIndependent ==
    /\ self = ChineseLunarCalendar
    /\ \A t \in Threads :
           /\ threads[t].result # <<>> =>
                  threads[t].result[1] = ResultAlone(threads[t].call)
           /\ (threads[t].first # <<>> /\ threads[t].result # <<>>) =>
                  threads[t].first = threads[t].result

C14_Witness ==
    /\ threads[1].call.fn = "gregorian_to_lunar"
    /\ threads[1].first # <<>>
    /\ threads[1].pc = "month_walk"
    /\ threads[2].call.fn = "lunar_to_gregorian"
    /\ threads[2].first # <<>>
    /\ threads[2].result # <<>>

(***************************************************************************)
(* find_solar_term, calendar.py 401-417, iteration by iteration.  The      *)
(* ephemeris is left open: what calculate_solar_longitude returns for an   *)
(* estimate is chosen by the environment among longitudes in [0, 360).     *)
(* Longitudes are counted in units of 0.00005 degree, half the tolerance,  *)
(* and an estimate is kept as [day, frac] with frac in units of 2.5e-7     *)
(* day, so that diff * 0.985 is 197 units of frac for each unit of diff.   *)
(***************************************************************************)
UnitsPerDegree == 20000
FullCircle == 360 * UnitsPerDegree
HalfCircle == 180 * UnitsPerDegree
UnitsPerDay == 4000000

\* abs(diff) < 0.0001, line 411
Tolerance == 2

\* faulty variant: range(41)
MaxIterationsFortyOne == 40 + 1

\* range(40), line 405
MaxIterations == 40

Abs(x) == IF x < 0 THEN 0 - x ELSE x

\* lines 407-409: (longitude - current_longitude) % 360, minus 360 if > 180
LongitudeDifference(longitude, current_longitude) ==
    LET diff == (longitude - current_longitude) % FullCircle
    IN  IF diff > HalfCircle THEN diff - FullCircle ELSE diff

\* jd += diff * 0.985, line 415
AdjustEstimate(estimate, diff) ==
    LET total == estimate.frac + diff * 197
    IN  [day |-> estimate.day + total \div UnitsPerDay, frac |-> total % UnitsPerDay]

\* target longitudes: a solstice, the equinox at 0, and arguments outside
\* [0, 360)
TargetLongitudes == {270 * UnitsPerDegree, 0, 0 - 90 * UnitsPerDegree, 400 * UnitsPerDegree}

StartEstimates == {[day |-> 2460341, frac |-> 2000000]}

\* what calculate_solar_longitude can return for a target: the target
\* itself, half a tolerance and a whole tolerance away from it on either
\* side, opposite to it and one unit to either side of the opposite point
SolarLongitudes(longitude) ==
    {(longitude + d) % FullCircle :
        d \in {0, 1, 0 - 1, 2, HalfCircle, HalfCircle - 1}}

InitSolarTerm ==
    /\ self = ChineseLunarCalendar
    /\ threads = None
    /\ chart = None
    /\ pc = "find_solar_term"
    /\ input = None
    /\ round = 1
    /\ date = None
    /\ NoWalk
    /\ lunar = None
    /\ greg = None
    /\ lunar2 = None
    /\ raised = None
    /\ jd = None
    /\ \E longitude \in TargetLongitudes, start_jd \in StartEstimates :
           /\ query = [fn |-> "find_solar_term",
                       arg |-> [longitude |-> longitude, start_jd |-> start_jd]]
           /\ solar_term = [jd |-> start_jd, iterations |-> 0, evaluations |-> 0,
                            evaluated_at |-> start_jd, diff |-> 0, met |-> 0,
                            adjustments |-> 0]
           /\ answer = start_jd

\* one iteration of the for loop, lines 405-415: it either breaks, and
\* line 417 returns jd, or adjusts the estimate
FindSolarTermIteration ==
    /\ pc = "find_solar_term"
    /\ solar_term.iterations < MaxIterations
    /\ \E current_longitude \in SolarLongitudes(query.arg.longitude) :
           LET diff == LongitudeDifference(query.arg.longitude, current_longitude)
               evaluated == [solar_term EXCEPT !.iterations = @ + 1,
                                               !.evaluations = @ + 1,
                                               !.evaluated_at = solar_term.jd,
                                               !.diff = diff]
           IN  IF Abs(diff) < Tolerance
               THEN /\ solar_term' = [evaluated EXCEPT !.met = @ + 1]
                    /\ answer' = solar_term.jd
                    /\ pc' = "returned"
               ELSE /\ solar_term' = [evaluated EXCEPT
                                         !.jd = AdjustEstimate(@, diff),
                                         !.adjustments = @ + 1]
                    /\ UNCHANGED <<answer, pc>>
    /\ UNCHANGED <<self, threads, chart, input, round, date, walkVars, labels, lunar, greg,
                   lunar2, raised, jd, query>>

\* the range is used up: line 417 returns the last estimate
FindSolarTermExhausted ==
    /\ pc = "find_solar_term"
    /\ solar_term.iterations >= MaxIterations
    /\ answer' = solar_term.jd
    /\ pc' = "returned"
    /\ UNCHANGED <<self, threads, solar_term, chart, input, round, date, walkVars, labels,
                   lunar, greg, lunar2, raised, jd, query>>

NextSolarTerm == FindSolarTermIteration \/ FindSolarTermExhausted

\* a call that has started runs on: the loop has no blocking statement
SpecSolarTerm ==
    /\ InitSolarTerm
    /\ [][NextSolarTerm]_vars
    /\ WF_vars(NextSolarTerm)

(***************************************************************************)
(* QiMenCalculator.calculate_star_positions, qi_men_dunjia.py 215-232.     *)
(* A dict is a function whose domain is the set of its keys.               *)
(***************************************************************************)
\* self.star_sequence, qi_men_dunjia.py 103-106
star_sequence ==
    <<"PENGBIRD", "RENSEAL", "CHONG", "FU", "YINGBIRD", "RUIBIRD", "ZHU", "XIN", "QIN">>

EmptyDict == [key \in {} |-> None]

\* dict[key] = value
DictSet(dict, key, value) ==
    [x \in DOMAIN dict \cup {key} |-> IF x = key THEN value ELSE dict[x]]

\* the for loop of lines 223-227 from enumerate index i on
RECURSIVE ArrangeStarsFrom(_, _, _, _)
ArrangeStarsFrom(i, star_positions, duty_chief_palace, time_factor) ==
    IF i >= Len(star_sequence) THEN star_positions
    ELSE LET number == ((duty_chief_palace - 1 + i + time_factor) % 8) + 1
             palace_number == IF number = 5 THEN 9 ELSE number
         IN  ArrangeStarsFrom(i + 1,
                              DictSet(star_positions, palace_number, star_sequence[i + 1]),
                              duty_chief_palace, time_factor)

calculate_star_positions(duty_chief_palace, lunar_date) ==
    LET time_factor ==
            (lunar_date.day + hour_range[BranchIndex(lunar_date.hour_branch) + 1][1]) % 9
        star_positions == ArrangeStarsFrom(0, EmptyDict, duty_chief_palace, time_factor)
    IN  DictSet(star_positions, 5, "QIN")

\* the palaces of yang_sequence and yin_sequence, qi_men_dunjia.py 115-116
DutyChiefPalaces == {1, 2, 3, 4, 6, 7, 8, 9}

StarQueries ==
    {[fn |-> "calculate_star_positions",
      arg |-> [duty_chief_palace |-> p, lunar_date |-> [day |-> d, hour_branch |-> b]]] :
        p \in DutyChiefPalaces, d \in 1..30, b \in {branches[i] : i \in 1..12}}

InitQiMen ==
    /\ Constructed
    /\ pc = "call"
    /\ input = None
    /\ round = 1
    /\ date = None
    /\ NoWalk
    /\ lunar = None
    /\ greg = None
    /\ lunar2 = None
    /\ raised = None
    /\ jd = None
    /\ query \in StarQueries
    /\ answer = None

CallCalculateStarPositions ==
    /\ pc = "call"
    /\ query.fn = "calculate_star_positions"
    /\ Return(calculate_star_positions(query.arg.duty_chief_palace, query.arg.lunar_date))

NextQiMen == CallCalculateStarPositions

SpecQiMen == InitQiMen /\ [][NextQiMen]_vars

(***************************************************************************)
(* InteractiveQiMenChart, interactive_chart.py: the chart cache.           *)
(* chart holds the fields of the object the cache depends on:              *)
(*   state.current_time, current_chart, cached_charts,                     *)
(* and calculated, which records whether the last call of                  *)
(* _get_cached_chart called the calculator.                                *)
(***************************************************************************)
\* len(self.cached_charts) > 100, interactive_chart.py 427
MaxCachedCharts == 100

\* hours the time slider may move before and after the initial time
HoursBefore == 1
HoursAfter == 101

\* time.strftime('%Y%m%d%H'): ten digits for a year of four digits; strings
\* of one length compare as the numbers they spell.  Minutes are dropped.
TimeKey(time) ==
    time.year * 1000000 + time.month * 10000 + time.day * 100 + time.hour

\* time + timedelta(hours=hours): the hour of the day, and the civil date
\* of the day number reached
AddHours(time, hours) ==
    LET total == time.hour + hours
        midnight == julian_to_gregorian(JD(JulianDayNumber(time) + total \div 24, 0))
    IN  DateTime(midnight.year, midnight.month, midnight.day,
                 total % 24, time.minute, time.second)

\* whole hours from time1 to time2
HoursBetween(time1, time2) ==
    (JulianDayNumber(time2) - JulianDayNumber(time1)) * 24 + time2.hour - time1.hour

\* self.calculator.calculate_qi_men_chart(time): the chart is known by the
\* time it was calculated for; the calculator changes no state
calculate_qi_men_chart(time) == [calculation_time |-> time]

\* del dict[key]
DictDel(dict, key) == [x \in DOMAIN dict \ {key} |-> dict[x]]

\* min(self.cached_charts.keys())
MinKey(dict) == CHOOSE x \in DOMAIN dict : \A y \in DOMAIN dict : x <= y

\* faulty variant: the cache may grow to one entry more
OverLimitByTwo(dict) == Cardinality(DOMAIN dict) > MaxCachedCharts + 1

\* len(self.cached_charts) > 100 as it is written, with the limit it names
OverLimit(dict) == Cardinality(DOMAIN dict) > MaxCachedCharts

\* _get_cached_chart, lines 419-431: the cache after the call, the chart
\* returned or the exception raised, and whether the calculator was called
GetCachedChart(cached_charts, time) ==
    LET time_key == TimeKey(time)
        stored == DictSet(cached_charts, time_key, calculate_qi_men_chart(time))
        limited == IF OverLimit(stored) THEN DictDel(stored, MinKey(stored)) ELSE stored
        after == IF time_key \notin DOMAIN cached_charts THEN limited ELSE cached_charts
    IN  [cached_charts |-> after,
         calculated |-> time_key \notin DOMAIN cached_charts,
         raised |-> IF time_key \in DOMAIN after THEN None ELSE "KeyError",
         result |-> IF time_key \in DOMAIN after THEN after[time_key] ELSE None]

InitialTimes == {DateTime(2024, 2, 27, 22, minute, 0) : minute \in {0, 30}}

\* the times a handler is called with: one hour from the current time,
\* within the window the slider covers
SliderTimes ==
    {time \in {AddHours(chart.state.current_time, hours) : hours \in {-1, 1}} :
        \A initial \in InitialTimes :
            /\ HoursBetween(initial, time) >= -HoursBefore
            /\ HoursBetween(initial, time) <= HoursAfter}

\* the times compared with: those of the slider, and the other half of the
\* current hour
ComparisonTimes ==
    SliderTimes \cup {[chart.state.current_time EXCEPT !.minute = 30 - @]}

\* InteractiveQiMenChart.__init__, lines 43-63
InitChart ==
    /\ self = ChineseLunarCalendar
    /\ threads = None
    /\ solar_term = None
    /\ \E initial_time \in InitialTimes :
           chart = [state |-> [current_time |-> initial_time],
                    current_chart |-> calculate_qi_men_chart(initial_time),
                    cached_charts |-> EmptyDict,
                    calculated |-> FALSE]
    /\ pc = "constructed"
    /\ input = None
    /\ round = 1
    /\ date = None
    /\ NoWalk
    /\ lunar = None
    /\ greg = None
    /\ lunar2 = None
    /\ raised = None
    /\ jd = None
    /\ query = [fn |-> "__init__", arg |-> chart.state.current_time]
    /\ answer = None

\* the object takes events after construction and after every handler,
\* also one that raised
AwaitingEvent == pc \in {"constructed", "returned", "raised"}

\* what a handler leaves of the call it made to _get_cached_chart
GetCachedChartCalled(fn, time, got) ==
    /\ query' = [fn |-> fn, arg |-> time]
    /\ raised' = got.raised
    /\ answer' = got.result
    /\ pc' = IF got.raised = None THEN "returned" ELSE "raised"
    /\ UNCHANGED <<self, threads, solar_term, input, round, date, target_jd, lunar_year,
                   has_leap, leap_month_num, month, is_leap_month, k, labels, lunar,
                   greg, lunar2, jd>>

\* _handle_time_change, lines 117-141: the current time is set before the
\* chart is looked up, the current chart after it
HandleTimeChange ==
    /\ AwaitingEvent
    /\ \E new_time \in SliderTimes :
           LET got == GetCachedChart(chart.cached_charts, new_time)
           IN  /\ chart' = [chart EXCEPT
                               !.state.current_time = new_time,
                               !.cached_charts = got.cached_charts,
                               !.calculated = got.calculated,
                               !.current_chart =
                                   IF got.raised = None THEN got.result ELSE @]
               /\ GetCachedChartCalled("_handle_time_change", new_time, got)

\* _handle_comparison_mode, lines 155-170: the current time and chart stay
HandleComparisonMode ==
    /\ AwaitingEvent
    /\ \E comparison_time \in ComparisonTimes :
           LET got == GetCachedChart(chart.cached_charts, comparison_time)
           IN  /\ chart' = [chart EXCEPT
                               !.cached_charts = got.cached_charts,
                               !.calculated = got.calculated]
               /\ GetCachedChartCalled("_handle_comparison_mode", comparison_time, got)

NextChart == HandleTimeChange \/ HandleComparisonMode

SpecChart == InitChart /\ [][NextChart]_vars

\* C21: find_solar_term terminates for every target longitude and start
\* Julian Day after at most 40 evaluations of the solar longitude and never
\* raises; if |difference| < 1e-4 is never reached it returns the estimate
\* obtained after the 40th adjustment, otherwise the estimate at which the
\* difference, wrapped into (-180, 180], first met the tolerance.
C21_SolarTermSearchBounded ==
    /\ [](/\ raised = None
          /\ solar_term.evaluations <= 40
          /\ solar_term.diff > 0 - HalfCircle
          /\ solar_term.diff <= HalfCircle
          /\ pc = "returned" =>
                IF solar_term.met > 0
                THEN /\ solar_term.met = 1
                     /\ Abs(solar_term.diff) < Tolerance
                     /\ answer = solar_term.evaluated_at
                ELSE /\ solar_term.evaluations = 40
                     /\ solar_term.adjustments = 40
                     /\ Abs(solar_term.diff) >= Tolerance
                     /\ answer = AdjustEstimate(solar_term.evaluated_at, solar_term.diff))
    /\ (pc = "find_solar_term" ~> pc = "returned")

C21_Witness ==
    /\ pc = "returned"
    /\ solar_term.met = 0
    /\ solar_term.adjustments = 40
    /\ solar_term.diff = 0 - HalfCircle + 1

\* C22: every LunarDate gregorian_to_lunar returns has month in 1..12 and
\* day in 1..30, with day = floor(target_jd - month_start) + 1 for the
\* new-moon interval [month_start, month_end) that contains the target.
C22_MonthAndDayRange ==
    JustReturned =>
        LET l == JustReturnedLunar
            month_start == calculate_new_moon(k)
        IN  /\ l.month \in 1..12
            /\ l.day \in 1..30
            /\ InMonth(month_start, target_jd, calculate_new_moon(k + 1))
            /\ JDLeq(JDPlusDays(month_start, l.day - 1), target_jd)
            /\ JDLess(target_jd, JDPlusDays(month_start, l.day))

C22_Witness ==
    /\ JustReturned
    /\ JustReturnedLunar.day = 30
    /\ JustReturnedLunar.month = 12

\* C23: for a lunar year Y whose year pillar has stem index s and a
\* non-leap month m in 1..12, get_month_stem_branch returns branch index
\* (2 + m - 1) mod 12 and stem index (T[s] + m - 1) mod 10 with
\* T = [2,4,6,8,0,2,4,6,8,0], so that T[s] = T[s+5]; s is the stem index of
\* get_year_stem_branch(Y).
C23_RegularMonthPillar ==
    (pc = "returned" /\ query.fn = "get_month_stem_branch" /\ ~query.arg.is_leap) =>
        LET T == <<2, 4, 6, 8, 0, 2, 4, 6, 8, 0>>
            s == StemIndex(get_year_stem_branch(query.arg.lunar_year)[1])
            m == query.arg.lunar_month
        IN  /\ StemIndex(answer[1]) = (T[s + 1] + m - 1) % 10
            /\ BranchIndex(answer[2]) = (2 + m - 1) % 12
            /\ T[s + 1] = T[((s + 5) % 10) + 1]

C23_Witness ==
    /\ pc = "returned"
    /\ query.fn = "get_month_stem_branch"
    /\ query.arg = [lunar_year |-> 2028, lunar_month |-> 12, is_leap |-> FALSE]
    /\ StemIndex(answer[1]) = 1
    /\ BranchIndex(answer[2]) = 1

\* the stem of the civil day of a timestamp: 1900-01-01 is day 11 of the
\* cycle of sixty and the days are counted from midnight to midnight
CivilDayStem(t) ==
    LET days == JulianDayNumber(t) - JulianDayNumber(DateTime(1900, 1, 1, 0, 0, 0))
    IN  stems[((10 + days) % 10) + 1]

\* C24: for every day stem index d in 0..9 and civil hour h in 0..23,
\* get_hour_stem_branch returns the branch b = get_by_hour(h) and the stem
\* with index (H[d] + index(b)) mod 10 where H = [0,2,4,6,8,0,2,4,6,8]; the
\* day stem used is that of the same civil day as h, including for h = 23.
C24_HourPillar ==
    LET H == <<0, 2, 4, 6, 8, 0, 2, 4, 6, 8>>
        Expected(h, day_stem) ==
            <<stems[((H[StemIndex(day_stem) + 1] + BranchIndex(get_by_hour(h))) % 10) + 1],
              get_by_hour(h)>>
    IN  /\ (pc = "returned" /\ query.fn = "get_hour_stem_branch") =>
               answer = Expected(query.arg.date.hour, query.arg.day_stem)
        /\ (pc = "returned" /\ query.fn = "day and hour pillar") =>
               /\ answer[1][1] = CivilDayStem(query.arg)
               /\ answer[2] = Expected(query.arg.hour, CivilDayStem(query.arg))

C24_Witness ==
    /\ pc = "returned"
    /\ query.fn = "day and hour pillar"
    /\ query.arg.hour = 23
    /\ answer[1][1] = stems[10]
    /\ StemIndex(answer[2][1]) = 8
    /\ BranchIndex(answer[2][2]) = 0

\* t1 is earlier than t2, compared to the second
Earlier(t1, t2) ==
    LET a == <<t1.year, t1.month, t1.day, t1.hour, t1.minute, t1.second>>
        b == <<t2.year, t2.month, t2.day, t2.hour, t2.minute, t2.second>>
    IN  \E i \in 1..6 : a[i] < b[i] /\ \A j \in 1..(i - 1) : a[j] = b[j]

\* the civil timestamp one second after t
NextSecond(t) ==
    IF t.second < 59 THEN [t EXCEPT !.second = @ + 1]
    ELSE IF t.minute < 59 THEN [t EXCEPT !.second = 0, !.minute = @ + 1]
    ELSE IF t.hour < 23 THEN [t EXCEPT !.second = 0, !.minute = 0, !.hour = @ + 1]
    ELSE IF t.day < DaysInMonth(t.year, t.month)
         THEN DateTime(t.year, t.month, t.day + 1, 0, 0, 0)
    ELSE IF t.month < 12 THEN DateTime(t.year, t.month + 1, 1, 0, 0, 0)
    ELSE DateTime(t.year + 1, 1, 1, 0, 0, 0)

\* timestamps a converted one is compared with
Landmarks ==
    {DateTime(y, mo, d, h, 0, 0) :
        y \in CivilYears, mo \in {1, 2, 3, 12}, d \in {1, 28}, h \in {0, 12}}

\* C25: gregorian_to_julian is strictly increasing in civil time: for any
\* two valid civil timestamps t1 earlier than t2, compared to the second,
\* across day, month, year and leap-day boundaries,
\* gregorian_to_julian(t1) < gregorian_to_julian(t2).
C25_JulianDayIncreasing ==
    pc = "julian_to_gregorian" =>
        /\ JDLess(jd, gregorian_to_julian(NextSecond(date)))
        /\ \A t \in Landmarks :
               /\ Earlier(date, t) => JDLess(jd, gregorian_to_julian(t))
               /\ Earlier(t, date) => JDLess(gregorian_to_julian(t), jd)

C25_Witness ==
    /\ pc = "julian_to_gregorian"
    /\ date = DateTime(2024, 2, 29, 23, 59, 59)
    /\ jd.day + 1 = gregorian_to_julian(DateTime(2024, 3, 1, 0, 0, 0)).day

\* C26: for any two supported civil timestamps that lie in the same
\* new-moon interval [NM(k), NM(k+1)), gregorian_to_lunar returns the same
\* lunar year, the same month ordinal and the same leap-month flag.
C26_SameIntervalSameMonth ==
    (pc = "lunar_to_gregorian" /\ input = "datetime") =>
        \A other \in SampleDates :
            (/\ other.year >= 1940
             /\ InMonth(calculate_new_moon(k), gregorian_to_julian(other),
                        calculate_new_moon(k + 1))) =>
                LET l == gregorian_to_lunar(other)
                IN  <<l.year, l.month, l.is_leap_month>>
                        = <<lunar.year, lunar.month, lunar.is_leap_month>>

\* C28: calculate_star_positions returns, for every duty chief palace in
\* {1,2,3,4,6,7,8,9} and every lunar day and hour branch, a one-to-one
\* assignment of the nine stars to the nine palaces 1..9: every palace
\* holds a star, every star of star_sequence appears in exactly one palace,
\* and palace 5 holds QIN.
C28_StarsOneToOne ==
    (pc = "returned" /\ query.fn = "calculate_star_positions") =>
        /\ DOMAIN answer = 1..9
        /\ \A i \in 1..Len(star_sequence) :
               Cardinality({p \in DOMAIN answer : answer[p] = star_sequence[i]}) = 1
        /\ answer[5] = "QIN"

(***************************************************************************)
(* C29.  Every call of _get_cached_chart returns a chart, the one stored   *)
(* under the hour key of the requested time, and raises nothing, also      *)
(* when the cache already holds 100 entries.                               *)
(***************************************************************************)
C29_CachedChartReturned ==
    (pc # "constructed") =>
        /\ pc = "returned"
        /\ raised = None
        /\ TimeKey(query.arg) \in DOMAIN chart.cached_charts
        /\ answer = chart.cached_charts[TimeKey(query.arg)]

(***************************************************************************)
(* C30.  When a call of _get_cached_chart ends, cached_charts holds at     *)
(* most 100 entries; a call whose hour key was already cached leaves       *)
(* cached_charts as it was and does not call the calculator.               *)
(***************************************************************************)
C30_CacheBoundedAndHitsKeep ==
    [][/\ Cardinality(DOMAIN chart'.cached_charts) <= 100
       /\ TimeKey(query'.arg) \in DOMAIN chart.cached_charts =>
              /\ chart'.cached_charts = chart.cached_charts
              /\ ~chart'.calculated
              /\ pc' = "returned"
              /\ answer' = chart.cached_charts[TimeKey(query'.arg)]]_vars

\* a full cache that has evicted its first entry answers a request for an
\* hour it holds, asked with another minute than the chart was calculated for
C30_Witness ==
    /\ pc = "returned"
    /\ query.fn = "_handle_comparison_mode"
    /\ Cardinality(DOMAIN chart.cached_charts) = 100
    /\ 2024022723 \notin DOMAIN chart.cached_charts
    /\ ~chart.calculated
    /\ answer = chart.cached_charts[TimeKey(query.arg)]
    /\ answer.calculation_time # query.arg
====
